---- MODULE Spec2Model ----
(***************************************************************************)
(* Model of the ELM327 adapter session of pyobd (src/elm327/elm327.py):    *)
(* the connect sequence, protocol selection, close, reconnect and          *)
(* send_and_parse, driven by the replies and faults of the serial port.    *)
(*                                                                         *)
(* Python strings are TLA+ strings; a list of reply lines is a sequence    *)
(* of strings.  Python's None is the string "None" where a value is        *)
(* optional.  One action is one step of the code between two port          *)
(* round trips; its inputs are what the port does during that step.        *)
(***************************************************************************)
EXTENDS Integers, Sequences, FiniteSets, TLC

VARIABLES
    status,     \* ELM327.__status
    port,       \* ELM327.__port: "None" or "obj" (a serial object is held)
    ser,        \* the serial object last opened: "none", "open", "closed" (close() was called on it)
    lowPower,   \* ELM327.__low_power_mode
    protocol,   \* ELM327.__protocol: [id, lines]
    params,     \* the parameters saved by __init__ for reconnection
    pc,         \* position of the running operation ("idle": none running)
    op,         \* the public operation running or last run
    ret,        \* what the last finished public call returned ("none": still running)
    cres,       \* what the last finished _connect call returned
    log,        \* commands written to the port since the last open / operation start
    answers,    \* [cmd, r]: the setup commands of the current connect attempt that passed, with the result of their __send (while _connect is in or just past the setup)
    fault,      \* the port raised during the current connect attempt / operation
    timedOut,   \* a port read returned no bytes during the current connect attempt / operation
    r0100,      \* auto_protocol: its local r0100 (<<>> outside auto_protocol)
    ti,         \* auto_protocol: position of its loop in _TRY_PROTOCOL_ORDER (0: not in the loop)
    attempt,    \* reconnect: loop variable attempt
    maxAtt,     \* reconnect: argument max_attempts
    closes,     \* reconnect: close() calls made by the running reconnect
    connects,   \* reconnect: _connect calls made by the running reconnect
    sleeps,     \* reconnect: time.sleep(retry_delay) calls made by the running reconnect
    fn,         \* decoders: the function applied ("none": not yet applied)
    fnIn,       \* decoders: the argument the function is given
    fnOut,      \* decoders: what the function returned
    bpc,        \* detect_elm327_baudrate: its position ("off": not called)
    bi,         \* detect_elm327_baudrate: position of its loop variable baud in _TRY_BAUDS
    found,      \* detect_elm327_baudrate: its local found_baud
    saved,      \* detect_elm327_baudrate: its local timeout
    orig,       \* the port's timeout and write_timeout when detect_elm327_baudrate was called
    portBaud,   \* port.baudrate
    portTimeout,        \* port.timeout
    portWriteTimeout,   \* port.write_timeout
    probe,      \* what the last _test_baudrate met: [kind, bytes]
    restored,   \* how the reinstating of the timeouts ended ("none": not reached)
    bret,       \* what detect_elm327_baudrate returned: [kind, baud]
    baudCall,   \* the set_baudrate call: [given, rate, portstr]
    cpc,        \* OBDConnection: position of its running call ("off": no OBDConnection, "ready": none running)
    iface,      \* OBDConnection.__interface: "None" or "obj" (the ELM327 session)
    supported,  \* OBDConnection.__supported_commands
    lastHeader, \* OBDConnection.__last_header
    lastCommand,    \* OBDConnection.__last_command
    frameCounts,    \* OBDConnection.__frame_counts
    query,      \* the running query: [cmd, force, loading]
    cret,       \* what the last finished call of the OBDConnection returned
    calls,      \* public calls made on the OBDConnection
    lastWritten \* the command most recently written to the adapter since OBDConnection() was called ("": none)

\* the variables of the ELM327 object and of its running operation
elmVars == <<status, port, ser, lowPower, protocol, params, pc, op, ret, cres, log,
             answers, fault, timedOut, r0100, ti, attempt, maxAtt, closes,
             connects, sleeps>>

\* the variables of a decoder call
fnVars == <<fn, fnIn, fnOut>>

\* the variables of a call of detect_elm327_baudrate and of the port it is given
baudVars == <<bpc, bi, found, saved, orig, portBaud, portTimeout,
              portWriteTimeout, probe, restored, bret, baudCall>>

\* the variables of an OBDConnection
connVars == <<cpc, iface, supported, lastHeader, lastCommand, frameCounts,
              query, cret, calls, lastWritten>>

\* the variables no ELM327 operation touches
sideVars == <<fnVars, baudVars, connVars>>

vars == <<elmVars, sideVars>>

----------------------------------------------------------------------------
(* Bounds *)

\* most port reads one __send is given before its reply is complete
MaxReads == 2
\* largest max_attempts passed to reconnect
MaxAttempts == 2

----------------------------------------------------------------------------
(* Strings *)

\* Python: t in s
Contains(s, t) ==
    \E i \in 1..(Len(s) - Len(t) + 1) : SubSeq(s, i, i + Len(t) - 1) = t

\* Python: s.startswith(t)
StartsWith(s, t) == Len(s) >= Len(t) /\ SubSeq(s, 1, Len(t)) = t

UpperChar(c) ==
    CASE c = "a" -> "A" [] c = "b" -> "B" [] c = "c" -> "C" [] c = "d" -> "D"
      [] c = "e" -> "E" [] c = "f" -> "F" [] c = "g" -> "G" [] c = "h" -> "H"
      [] c = "i" -> "I" [] c = "j" -> "J" [] c = "k" -> "K" [] c = "l" -> "L"
      [] c = "m" -> "M" [] c = "n" -> "N" [] c = "o" -> "O" [] c = "p" -> "P"
      [] c = "q" -> "Q" [] c = "r" -> "R" [] c = "s" -> "S" [] c = "t" -> "T"
      [] c = "u" -> "U" [] c = "v" -> "V" [] c = "w" -> "W" [] c = "x" -> "X"
      [] c = "y" -> "Y" [] c = "z" -> "Z" [] OTHER -> c

RECURSIVE upper(_)
\* Python: s.upper()
upper(s) ==
    IF Len(s) = 0 THEN ""
    ELSE UpperChar(SubSeq(s, 1, 1)) \o upper(SubSeq(s, 2, Len(s)))

RECURSIVE JoinRepr(_)
JoinRepr(lines) ==
    IF Len(lines) = 0 THEN ""
    ELSE "'" \o Head(lines) \o "'" \o
         (IF Len(lines) > 1 THEN ", " ELSE "") \o JoinRepr(Tail(lines))

\* Python: str(lines) of a list of strings (the lines hold no quote or escape)
StrOfList(lines) == "[" \o JoinRepr(lines) \o "]"

----------------------------------------------------------------------------
(* Tables of ELM327 *)

SUPPORTED_PROTOCOLS == {"1", "2", "3", "4", "5", "6", "7", "8", "9", "A"}

TRY_PROTOCOL_ORDER == <<"6", "8", "1", "7", "9", "2", "3", "4", "5", "A">>

NOT_CONNECTED == "NOT_CONNECTED"
ELM_CONNECTED == "ELM_CONNECTED"
OBD_CONNECTED == "OBD_CONNECTED"
CAR_CONNECTED == "CAR_CONNECTED"

OBDStatus == {NOT_CONNECTED, ELM_CONNECTED, OBD_CONNECTED, CAR_CONNECTED}

\* UnknownProtocol([]), installed by __init__
UnknownProtocol == [id |-> "Unknown", lines |-> <<>>]
\* self.__protocol = None, left by close()
NoProtocol == [id |-> "None", lines |-> <<>>]

\* ELM327.__has_message
has_message(lines, text) ==
    \E i \in 1..Len(lines) : Contains(lines[i], text)

\* __isok without the exact comparison of the single line
isok_loose(lines, expectEcho) ==
    IF Len(lines) = 0 THEN FALSE ELSE has_message(lines, "OK")

\* ELM327.__isok
isok(lines, expectEcho) ==
    IF Len(lines) = 0 THEN FALSE
    ELSE IF expectEcho THEN has_message(lines, "OK")
    ELSE Len(lines) = 1 /\ lines[1] = "OK"

\* the test of __reset_device on the reply to ATZ
reset_ok(response) == Contains(upper(StrOfList(response)), "ELM")

\* the acceptance test without its NO DATA marker
probe_accepted_no_nodata(lines) ==
    /\ ~has_message(lines, "UNABLE TO CONNECT")
    /\ ~has_message(lines, "BUS INIT: ...ERROR")
    /\ ~has_message(lines, "CAN ERROR")

\* the acceptance test of auto_protocol's trial loop on the reply to 0100
probe_accepted(lines) ==
    /\ ~has_message(lines, "UNABLE TO CONNECT")
    /\ ~has_message(lines, "NO DATA")
    /\ ~has_message(lines, "BUS INIT: ...ERROR")
    /\ ~has_message(lines, "CAN ERROR")

\* auto_protocol with the prefix "A" dropped from a one-character line too
strip_auto_always(p) ==
    IF StartsWith(p, "A") THEN SubSeq(p, 2, Len(p)) ELSE p

\* auto_protocol: suppress any "automatic" prefix of the ATDPN line
strip_auto(p) ==
    IF Len(p) > 1 /\ StartsWith(p, "A") THEN SubSeq(p, 2, Len(p)) ELSE p

----------------------------------------------------------------------------
(* The port: what one __send can meet *)

\* line lists the adapter can answer with, per command
RepliesATZ == { <<>>, <<"ELM327 v1.5">>, <<"elm327 v1.5">>, <<"?">> }

\* to a setup command: nothing, OK, OK after the echoed command, an error
RepliesSetup(cmd) == { <<>>, <<"OK">>, <<cmd, "OK">>, <<"?">> }

RepliesPlain == { <<>>, <<"OK">> }

Replies0100 ==
    { <<>>, <<"41 00 BE 3E B8 13">>,
      <<"UNABLE TO CONNECT">>, <<"NO DATA">>, <<"CAN ERROR">>,
      <<"BUS INIT: ...ERROR">>, <<"SEARCHING...", "UNABLE TO CONNECT">> }

RepliesATDPN == { <<>>, <<"A6">>, <<"6">>, <<"0">>, <<"A">>, <<"6", "OK">> }

RepliesATLP == { <<>>, <<"OK">>, <<"?">> }

RepliesCmd == { <<>>, <<"41 0C 1A F8">>, <<"NO DATA">> }

\* one call of __read on a held port:
\*   "data":    bytes arrived up to the end marker; lines is what they hold
\*   "partial": bytes without the end marker (lines, maybe none), then a read
\*              that returned no bytes
\*   "fault":   port.read raised
ReadOutcomes(R) ==
    [kind : {"data", "partial"}, lines : R]
        \cup {[kind |-> "fault", lines |-> <<>>]}

BarePrompt == [kind |-> "data", lines |-> <<>>]

RECURSIVE Prompts(_)
Prompts(n) == IF n = 0 THEN <<>> ELSE <<BarePrompt>> \o Prompts(n - 1)

\* the reads of one __send: bare prompts (empty results on a held port),
\* then one further outcome
ReadSeqs(R) ==
    { Prompts(k) \o <<r>> : k \in 0..(MaxReads - 1), r \in ReadOutcomes(R) }

\* what the port does during one __send:
\*   wf: port.write (or flushInput / flush) raises
IOInputs(R) ==
    [wf : {FALSE}, reads : ReadSeqs(R)] \cup [wf : {TRUE}, reads : {<<>>}]

\* the fields of the session that port traffic changes
Cur == [status |-> status, port |-> port, ser |-> ser, log |-> log,
        fault |-> fault, timedOut |-> timedOut]

\* a cleanup that resets the status and keeps the port
cleanup_keeps_port(s) == [s EXCEPT !.status = NOT_CONNECTED]

\* ELM327.__cleanup_failed_connection (an exception of port.close() is swallowed)
cleanup_failed_connection(s) ==
    [s EXCEPT !.status = NOT_CONNECTED,
              !.ser = IF s.port = "obj" THEN "closed" ELSE @,
              !.port = "None"]

\* ELM327.__write
write(s, cmd, in) ==
    IF s.port = "obj"
    THEN IF in.wf
         THEN cleanup_failed_connection([s EXCEPT !.fault = TRUE])
         ELSE [s EXCEPT !.log = Append(@, cmd)]
    ELSE s

\* ELM327.__read: the session afterwards and the lines returned
read(s, rd) ==
    IF s.port # "obj" THEN [s |-> s, lines |-> <<>>]
    ELSE CASE rd.kind = "fault" ->
                [s |-> cleanup_failed_connection([s EXCEPT !.fault = TRUE]),
                 lines |-> <<>>]
           [] rd.kind = "partial" ->
                [s |-> cleanup_failed_connection([s EXCEPT !.timedOut = TRUE]),
                 lines |-> rd.lines]
           [] OTHER -> [s |-> s, lines |-> rd.lines]

\* the read outcome number n of a __send (bare prompts once the given ones are used up)
NthRead(reads, n) == IF n <= Len(reads) THEN reads[n] ELSE BarePrompt

\* the values the Python float delayed takes in __send, as Python prints
\* them: 0.0 and the IEEE-754 double sums of adding 0.1 to it again and
\* again, then 0.0 + 1 (delay=1) and its sum with 0.1.  delayed is modelled
\* by its place in this list
FloatValues ==
    <<"0.0", "0.1", "0.2", "0.30000000000000004", "0.4", "0.5", "0.6", "0.7",
      "0.7999999999999999", "0.8999999999999999", "0.9999999999999999",
      "1.0999999999999999", "1.0", "1.1">>

\* delayed += d with d = 0.1: every sum stands behind the value it is made from
add_tenth(delayed) == delayed + 1

\* the places of the values that are not below 1.0
NotBelowOne ==
    {i \in 1 .. Len(FloatValues) :
        FloatValues[i] \in {"1.0999999999999999", "1.0", "1.1"}}

\* delayed < 1.0 were the sums exact: ten times 0.1 is 1.0
below_one_exact(delayed) ==
    delayed \notin NotBelowOne /\ FloatValues[delayed] # "0.9999999999999999"

\* delayed < 1.0
below_one(delayed) == delayed \notin NotBelowOne

\* delayed after lines 759-764: the place of 0.0 or of 1.0; delay is in
\* tenths of a second (0: delay=None, 10: delay=1)
initial_delayed(delay) == IF delay = 0 THEN 1 ELSE Len(FloatValues) - 1

RECURSIVE send_loop(_, _, _, _)
\* the re-read loop of __send, lines 767-775: r is the result of read number
\* n - 1; the result tells how many times __read was called
send_loop(r, delayed, reads, n) ==
    IF below_one(delayed) /\ Len(r.lines) <= 0
    THEN send_loop(read(r.s, NthRead(reads, n)), add_tenth(delayed), reads, n + 1)
    ELSE [s |-> r.s, lines |-> r.lines, reads |-> n - 1]

\* ELM327.__send; delay is in tenths of a second (0: delay=None, 10: delay=1)
send(s, cmd, delay, in) ==
    send_loop(read(write(s, cmd, in), NthRead(in.reads, 1)),
              initial_delayed(delay), in.reads, 2)

\* is_connected looking at the status alone
is_connected_status_only(s) == s.status # NOT_CONNECTED

\* ELM327.is_connected (a held serial object is open)
is_connected(s) == ~(s.port = "None" \/ s.status = NOT_CONNECTED)

SetIO(s) ==
    /\ status' = s.status
    /\ port' = s.port
    /\ ser' = s.ser
    /\ log' = s.log
    /\ fault' = s.fault
    /\ timedOut' = s.timedOut

ioVars == <<status, port, ser, log, fault, timedOut>>
rcVars == <<attempt, maxAtt, closes, connects, sleeps>>

----------------------------------------------------------------------------
(* Construction *)

\* no decoder is called
NoFn == fn = "none" /\ fnIn = <<>> /\ fnOut = "none"

\* a return value of detect_elm327_baudrate: "pending" (not returned),
\* "raised", "None" or "baud" with the rate
NoBaudReturn == [kind |-> "pending", baud |-> 0]

\* no probe made
NoProbe == [kind |-> "none", bytes |-> <<>>]

\* set_baudrate is not called
NoBaudCall == [given |-> FALSE, rate |-> 0, portstr |-> ""]

\* detect_elm327_baudrate is not called
NoDetect ==
    /\ bpc = "off"
    /\ bi = 0
    /\ found = FALSE
    /\ saved = "none"
    /\ orig = [timeout |-> "none", write_timeout |-> "none"]
    /\ portBaud = 0
    /\ portTimeout = "none"
    /\ portWriteTimeout = "none"
    /\ probe = NoProbe
    /\ restored = "none"
    /\ bret = NoBaudReturn
    /\ baudCall = NoBaudCall

\* no running query
NoQuery == [cmd |-> "none", force |-> FALSE, loading |-> FALSE]

\* no OBDConnection exists
NoConn ==
    /\ cpc = "off"
    /\ iface = "None"
    /\ supported = {}
    /\ lastHeader = "none"
    /\ lastCommand = ""
    /\ frameCounts = <<>>
    /\ query = NoQuery
    /\ cret = "none"
    /\ calls = 0
    /\ lastWritten = ""

\* the arguments of ELM327(portname, baudrate, protocol, timeout, check_voltage, start_low_power)
ParamSet ==
    [portname : {"/dev/ttyUSB0", ""},
     baudrate : {38400},
     protocol : {"None", "3", "6", "Z"},
     check_voltage : BOOLEAN,
     start_low_power : BOOLEAN]

\* ELM327.__init__ up to its call of _connect
ElmInit ==
    /\ params \in ParamSet
    /\ status = NOT_CONNECTED
    /\ protocol = UnknownProtocol
    /\ lowPower = FALSE
    /\ port = "None"
    /\ ser = "none"
    /\ pc = "c_open"
    /\ op = "init"
    /\ ret = "none"
    /\ cres = "none"
    /\ log = <<>>
    /\ answers = <<>>
    /\ fault = FALSE
    /\ timedOut = FALSE
    /\ r0100 = <<>>
    /\ ti = 0
    /\ attempt = 0
    /\ maxAtt = 0
    /\ closes = 0
    /\ connects = 0
    /\ sleeps = 0

\* an ELM327 is constructed on its own
Init ==
    /\ ElmInit
    /\ NoFn
    /\ NoDetect
    /\ NoConn

----------------------------------------------------------------------------
(* _connect *)

\* _connect goes on to its next step
Goto(p) == pc' = p /\ UNCHANGED <<ret, cres, sideVars>>

\* _connect returns res ("True", "False") or raises ("raised") to its caller:
\* __init__ lets an exception escape, reconnect catches it and goes on
ConnectReturn(res) ==
    /\ cres' = res
    /\ UNCHANGED sideVars
    /\ IF op = "init"
       THEN /\ ret' = res
            /\ pc' = IF res = "raised" THEN "dead" ELSE "idle"
       ELSE IF res = "True"
            THEN ret' = "True" /\ pc' = "idle"
            ELSE ret' = ret /\ pc' = "r_loop"

\* _connect lines 158-165 with __open_serial_port: serial_for_url raises
\* SerialException for a port that cannot be opened (always for the empty name)
ConnectOpen ==
    /\ pc = "c_open"
    /\ \E ok \in IF params.portname = "" THEN {FALSE} ELSE BOOLEAN :
         /\ status' = NOT_CONNECTED
         /\ log' = <<>>
         /\ answers' = <<>>
         /\ fault' = FALSE
         /\ timedOut' = FALSE
         /\ r0100' = <<>>
         /\ ti' = 0
         /\ connects' = connects + 1
         /\ IF ok
            THEN /\ port' = "obj"
                 /\ ser' = "open"
                 /\ Goto(IF params.start_low_power THEN "c_wake" ELSE "c_baud")
            ELSE /\ port' = "None"
                 /\ ser' = ser
                 /\ ConnectReturn("False")
    /\ UNCHANGED <<lowPower, protocol, params, op, attempt, maxAtt, closes, sleeps>>

\* _connect lines 167-169 with __wake_from_low_power
ConnectWake ==
    /\ pc = "c_wake"
    /\ \E in \in [wf : BOOLEAN, reads : {<<>>}] :
         SetIO(write(Cur, " ", in))
    /\ Goto("c_baud")
    /\ UNCHANGED <<lowPower, protocol, params, op, answers, r0100, ti, rcVars>>

\* _connect lines 171-177 with set_baudrate for an explicit rate:
\* assigning port.baudrate raises AttributeError when the port was released,
\* and SerialException (bad) when the rate is not supported
ConnectBaud ==
    /\ pc = "c_baud"
    /\ \E bad \in BOOLEAN :
         IF port = "None"
         THEN ConnectReturn("raised") /\ UNCHANGED ioVars
         ELSE IF bad
              THEN SetIO(cleanup_failed_connection(Cur)) /\ ConnectReturn("False")
              ELSE Goto("c_atz") /\ UNCHANGED ioVars
    /\ UNCHANGED <<lowPower, protocol, params, op, answers, r0100, ti, rcVars>>

\* one setup command of _connect: send it, test the reply, clean up on failure
SetupStep(here, cmd, delay, echo, next) ==
    /\ pc = here
    /\ \E in \in IOInputs(IF cmd = "ATZ" THEN RepliesATZ ELSE RepliesSetup(cmd)) :
         LET r == send(Cur, cmd, delay, in)
             good == IF cmd = "ATZ" THEN reset_ok(r.lines) ELSE isok(r.lines, echo)
         IN  IF good
             THEN /\ answers' = Append(answers, [cmd |-> cmd, r |-> r.lines])
                  /\ IF cmd = "ATL0"
                     THEN SetIO([r.s EXCEPT !.status = ELM_CONNECTED])
                     ELSE SetIO(r.s)
                  /\ Goto(next)
             ELSE /\ answers' = answers
                  /\ SetIO(cleanup_failed_connection(r.s))
                  /\ ConnectReturn("False")
    /\ UNCHANGED <<lowPower, protocol, params, op, r0100, ti, rcVars>>

\* _connect lines 179-182 with __reset_device
ConnectReset == SetupStep("c_atz", "ATZ", 10, FALSE, "c_ate0")

\* _connect lines 185-187 with __disable_echo
ConnectEcho == SetupStep("c_ate0", "ATE0", 10, TRUE, "c_ath1")

\* _connect lines 189-191 with __enable_headers
ConnectHeaders == SetupStep("c_ath1", "ATH1", 10, FALSE, "c_atl0")

\* _connect lines 193-199 with __disable_linefeeds
ConnectLinefeeds ==
    SetupStep("c_atl0", "ATL0", 0, FALSE,
              IF params.check_voltage THEN "c_volt" ELSE "c_proto")

\* _connect lines 201-203: __is_vehicle_voltage_correct is declared with a
\* required parameter voltage and is called without it, so the call raises
\* TypeError before anything is sent
ConnectVoltage ==
    /\ pc = "c_volt"
    /\ ConnectReturn("raised")
    /\ UNCHANGED <<ioVars, lowPower, protocol, params, op, answers, r0100, ti,
                   rcVars>>

\* _connect lines 219-224: the status is set, then the log message reads
\* port.baudrate, which raises AttributeError when the port was released
ConnectFinish(s) ==
    /\ SetIO([s EXCEPT !.status = CAR_CONNECTED])
    /\ ConnectReturn(IF s.port = "None" THEN "raised" ELSE "True")

\* set_protocol handing every explicit id to manual_protocol
SetProtocol_AnyId ==
    /\ pc = "c_proto"
    /\ IF ~is_connected(Cur)
       THEN ConnectReturn("False")
       ELSE IF params.protocol # "None"
            THEN Goto("m_attp")
            ELSE Goto("a_atsp0")
    /\ answers' = <<>>
    /\ UNCHANGED <<ioVars, lowPower, protocol, params, op, r0100, ti, rcVars>>

\* _connect line 211 with set_protocol up to its first command; the setup is
\* over and its replies are forgotten
SetProtocol ==
    /\ pc = "c_proto"
    /\ IF ~is_connected(Cur)
       THEN ConnectReturn("False")
       ELSE IF params.protocol # "None"
            THEN IF params.protocol \notin SUPPORTED_PROTOCOLS
                 THEN ConnectReturn("False")
                 ELSE Goto("m_attp")
            ELSE Goto("a_atsp0")
    /\ answers' = <<>>
    /\ UNCHANGED <<ioVars, lowPower, protocol, params, op, r0100, ti, rcVars>>

\* a command of protocol selection whose reply is not looked at
PlainSend(here, cmd, delay, next) ==
    /\ pc = here
    /\ \E in \in IOInputs(RepliesPlain) : SetIO(send(Cur, cmd, delay, in).s)
    /\ Goto(next)
    /\ UNCHANGED <<lowPower, protocol, params, op, answers, r0100, ti, rcVars>>

\* manual_protocol line 255
ManualAttp == PlainSend("m_attp", "ATTP" \o params.protocol, 0, "m_0100")

\* manual_protocol lines 256-265, and the rest of _connect
Manual0100 ==
    /\ pc = "m_0100"
    /\ \E in \in IOInputs(Replies0100) :
         LET r == send(Cur, "0100", 0, in)
         IN  IF ~has_message(r.lines, "UNABLE TO CONNECT")
             THEN /\ protocol' = [id |-> params.protocol, lines |-> r.lines]
                  /\ ConnectFinish(r.s)
             ELSE /\ protocol' = protocol
                  /\ SetIO(r.s)
                  /\ ConnectReturn("False")
    /\ UNCHANGED <<lowPower, params, op, answers, r0100, ti, rcVars>>

\* auto_protocol line 278
AutoAtsp0 == PlainSend("a_atsp0", "ATSP0", 10, "a_0100")

\* auto_protocol lines 281-285
Auto0100 ==
    /\ pc = "a_0100"
    /\ \E in \in IOInputs(Replies0100) :
         LET r == send(Cur, "0100", 10, in)
         IN  SetIO(r.s) /\ r0100' = r.lines
    /\ Goto("a_atdpn")
    /\ UNCHANGED <<lowPower, protocol, params, op, answers, ti, rcVars>>

\* auto_protocol lines 288-308 on one behaviour of the port: r[0] raises
\* IndexError on an empty reply.  On the way into the trial loop the value of
\* r0100 is dead (line 311 assigns it before it is read again), and the model
\* forgets it.
AutoAtdpnOn(in) ==
    LET r == send(Cur, "ATDPN", 0, in)
    IN  IF Len(r.lines) = 0
        THEN /\ SetIO(r.s)
             /\ ConnectReturn("raised")
             /\ r0100' = <<>>
             /\ UNCHANGED <<protocol, ti>>
        ELSE LET p == strip_auto(r.lines[1])
             IN  IF p \in SUPPORTED_PROTOCOLS
                 THEN /\ protocol' = [id |-> p, lines |-> r0100]
                      /\ ConnectFinish(r.s)
                      /\ r0100' = <<>>
                      /\ ti' = ti
                 ELSE /\ SetIO(r.s)
                      /\ Goto("t_attp")
                      /\ ti' = 1
                      /\ r0100' = <<>>
                      /\ protocol' = protocol

\* auto_protocol lines 288-308, and the rest of _connect
AutoAtdpn ==
    /\ pc = "a_atdpn"
    /\ \E in \in IOInputs(RepliesATDPN) : AutoAtdpnOn(in)
    /\ UNCHANGED <<lowPower, params, op, answers, rcVars>>

\* auto_protocol lines 309-310; the r0100 of the round before is dead
TryAttp ==
    /\ pc = "t_attp"
    /\ ti \in 1..Len(TRY_PROTOCOL_ORDER)
    /\ \E in \in IOInputs(RepliesPlain) :
         SetIO(send(Cur, "ATTP" \o TRY_PROTOCOL_ORDER[ti], 0, in).s)
    /\ r0100' = <<>>
    /\ Goto("t_0100")
    /\ UNCHANGED <<lowPower, protocol, params, op, answers, ti, rcVars>>

\* auto_protocol lines 311-324, and the rest of _connect
Try0100 ==
    /\ pc = "t_0100"
    /\ \E in \in IOInputs(Replies0100) :
         LET r == send(Cur, "0100", 0, in)
         IN  IF probe_accepted(r.lines)
             THEN /\ protocol' = [id |-> TRY_PROTOCOL_ORDER[ti], lines |-> r.lines]
                  /\ ConnectFinish(r.s)
                  /\ ti' = 0
                  /\ r0100' = <<>>
             ELSE /\ protocol' = protocol
                  /\ SetIO(r.s)
                  /\ IF ti < Len(TRY_PROTOCOL_ORDER)
                     THEN ti' = ti + 1 /\ r0100' = r.lines /\ Goto("t_attp")
                     ELSE ti' = 0 /\ r0100' = <<>> /\ ConnectReturn("False")
    /\ UNCHANGED <<lowPower, params, op, answers, rcVars>>

Connect ==
    \/ ConnectOpen \/ ConnectWake \/ ConnectBaud
    \/ ConnectReset \/ ConnectEcho \/ ConnectHeaders \/ ConnectLinefeeds
    \/ ConnectVoltage \/ SetProtocol
    \/ ManualAttp \/ Manual0100
    \/ AutoAtsp0 \/ Auto0100 \/ AutoAtdpn \/ TryAttp \/ Try0100

----------------------------------------------------------------------------
(* Public operations on a constructed session *)

\* the port traffic fields at the start of a public operation
Fresh == [Cur EXCEPT !.log = <<>>, !.fault = FALSE, !.timedOut = FALSE]

\* what the port does during close():
\*   wt: assigning port.write_timeout raises, wf: the ATZ write raises,
\*   cf: port.close() raises
CloseInputs == [wt : BOOLEAN, wf : BOOLEAN, cf : BOOLEAN, reads : {<<>>}]

\* close() without the finally clause: a raising port.close() keeps the port
close_no_finally(s, in) ==
    LET s1 == IF s.port = "obj" /\ ~in.wt THEN write(s, "ATZ", in) ELSE s
        s2 == IF s1.port = "obj" /\ ~in.cf
              THEN [s1 EXCEPT !.ser = "closed", !.port = "None"]
              ELSE s1
    IN  [s2 EXCEPT !.status = NOT_CONNECTED]

\* ELM327.close lines 601-616: status and port afterwards.  The try around
\* the ATZ write and the try / finally around port.close() swallow every
\* exception, so the port is released whether or not in.cf
close(s, in) ==
    LET s1 == IF s.port = "obj" /\ ~in.wt THEN write(s, "ATZ", in) ELSE s
        s2 == IF s1.port = "obj"
              THEN [s1 EXCEPT !.ser = "closed", !.port = "None"]
              ELSE s1
    IN  [s2 EXCEPT !.status = NOT_CONNECTED]

StartOp(name) ==
    /\ pc = "idle"
    /\ op' = name
    /\ answers' = <<>>
    /\ cres' = "none"
    /\ attempt' = 0
    /\ closes' = 0
    /\ connects' = 0
    /\ sleeps' = 0
    /\ UNCHANGED sideVars

\* an operation other than reconnect
StartPlainOp(name) == StartOp(name) /\ maxAtt' = 0

\* ELM327.close
Close ==
    /\ StartPlainOp("close")
    /\ \E in \in CloseInputs : SetIO(close(Fresh, in))
    /\ protocol' = NoProtocol
    /\ ret' = "None"
    /\ pc' = "idle"
    /\ UNCHANGED <<lowPower, params, r0100, ti>>

\* reconnect without the test of the saved port name
Reconnect_NoNameTest(m) ==
    /\ StartOp("reconnect")
    /\ SetIO(Fresh)
    /\ maxAtt' = m
    /\ ret' = "none"
    /\ pc' = "r_loop"
    /\ UNCHANGED <<lowPower, protocol, params, r0100, ti>>

\* ELM327.reconnect lines 635-649
Reconnect(m) ==
    /\ StartOp("reconnect")
    /\ SetIO(Fresh)
    /\ maxAtt' = m
    /\ IF params.portname = ""
       THEN ret' = "False" /\ pc' = "idle"
       ELSE ret' = "none" /\ pc' = "r_loop"
    /\ UNCHANGED <<lowPower, protocol, params, r0100, ti>>

\* the loop of reconnect running one round too many
ReconnectLoop_OneMore ==
    /\ pc = "r_loop"
    /\ IF attempt > maxAtt
       THEN /\ SetIO(cleanup_failed_connection(Cur))
            /\ ret' = "False"
            /\ pc' = "idle"
            /\ UNCHANGED <<attempt, closes, sleeps, protocol>>
       ELSE /\ attempt' = attempt + 1
            /\ \E in \in CloseInputs : SetIO(close(Cur, in))
            /\ protocol' = NoProtocol
            /\ closes' = closes + 1
            /\ sleeps' = IF attempt + 1 > 1 THEN sleeps + 1 ELSE sleeps
            /\ ret' = ret
            /\ pc' = "c_open"
    /\ UNCHANGED <<lowPower, params, op, cres, answers, r0100, ti, maxAtt,
                   connects, sideVars>>

\* ELM327.reconnect lines 651-664 and 672-681: the head of one loop round
\* (close, sleep before every round but the first, call _connect), or the
\* exit of the loop (clean up, return False)
ReconnectLoop ==
    /\ pc = "r_loop"
    /\ IF attempt + 1 > maxAtt
       THEN /\ SetIO(cleanup_failed_connection(Cur))
            /\ ret' = "False"
            /\ pc' = "idle"
            /\ UNCHANGED <<attempt, closes, sleeps, protocol>>
       ELSE /\ attempt' = attempt + 1
            /\ \E in \in CloseInputs : SetIO(close(Cur, in))
            /\ protocol' = NoProtocol
            /\ closes' = closes + 1
            /\ sleeps' = IF attempt + 1 > 1 THEN sleeps + 1 ELSE sleeps
            /\ ret' = ret
            /\ pc' = "c_open"
    /\ UNCHANGED <<lowPower, params, op, cres, answers, r0100, ti, maxAtt,
                   connects, sideVars>>

\* commands given to send_and_parse
Cmds == {"0100", "010C"}

\* send_and_parse that sends the command to a sleeping adapter
SendAndParse_NoWake(cmd) ==
    /\ StartPlainOp("send_and_parse")
    /\ IF ~is_connected(Cur)
       THEN /\ SetIO(Fresh)
            /\ ret' = "None"
            /\ lowPower' = lowPower
       ELSE \E in2 \in IOInputs(RepliesCmd) :
              /\ SetIO(send(Fresh, cmd, 0, in2).s)
              /\ lowPower' = lowPower
              /\ ret' = IF protocol.id = "None" THEN "raised" ELSE "messages"
    /\ pc' = "idle"
    /\ UNCHANGED <<protocol, params, r0100, ti>>

\* ELM327.send_and_parse with the normal_power it calls; the handler
\* self.__protocol is called on the lines, which raises TypeError when it is None
SendAndParse(cmd) ==
    /\ StartPlainOp("send_and_parse")
    /\ IF ~is_connected(Cur)
       THEN /\ SetIO(Fresh)
            /\ ret' = "None"
            /\ lowPower' = lowPower
       ELSE \E in1 \in IF lowPower THEN IOInputs(RepliesPlain)
                                     ELSE {[wf |-> FALSE, reads |-> <<>>]},
               in2 \in IOInputs(RepliesCmd) :
              LET s1 == IF lowPower THEN send(Fresh, " ", 0, in1).s ELSE Fresh
                  r == send(s1, cmd, 0, in2)
              IN  /\ SetIO(r.s)
                  /\ lowPower' = FALSE
                  /\ ret' = IF protocol.id = "None" THEN "raised" ELSE "messages"
    /\ pc' = "idle"
    /\ UNCHANGED <<protocol, params, r0100, ti>>

\* ELM327.low_power
LowPower ==
    /\ StartPlainOp("low_power")
    /\ IF ~is_connected(Cur)
       THEN /\ SetIO(Fresh)
            /\ ret' = "None"
            /\ lowPower' = lowPower
       ELSE \E in \in IOInputs(RepliesATLP) :
              LET r == send(Fresh, "ATLP", 10, in)
              IN  /\ SetIO(r.s)
                  /\ lowPower' = IF \E i \in 1..Len(r.lines) : r.lines[i] = "OK"
                                 THEN TRUE ELSE lowPower
                  /\ ret' = "lines"
    /\ pc' = "idle"
    /\ UNCHANGED <<protocol, params, r0100, ti>>

\* ELM327.normal_power
NormalPower ==
    /\ StartPlainOp("normal_power")
    /\ IF ~is_connected(Cur)
       THEN /\ SetIO(Fresh)
            /\ ret' = "None"
            /\ lowPower' = lowPower
       ELSE \E in \in IOInputs(RepliesPlain) :
              /\ SetIO(send(Fresh, " ", 0, in).s)
              /\ lowPower' = FALSE
              /\ ret' = "lines"
    /\ pc' = "idle"
    /\ UNCHANGED <<protocol, params, r0100, ti>>

Next ==
    \/ Connect
    \/ \E m \in 0..MaxAttempts : Reconnect(m)
    \/ ReconnectLoop
    \/ Close
    \/ \E cmd \in Cmds : SendAndParse(cmd)
    \/ LowPower
    \/ NormalPower

Spec == Init /\ [][Next]_vars

TypeOK ==
    /\ status \in OBDStatus
    /\ port \in {"None", "obj"}
    /\ ser \in {"none", "open", "closed"}
    /\ lowPower \in BOOLEAN
    /\ ret \in {"none", "True", "False", "None", "raised", "messages", "lines"}


\* the points of _connect
ConnectPcs ==
    {"c_open", "c_wake", "c_baud", "c_atz", "c_ate0", "c_ath1", "c_atl0",
     "c_volt", "c_proto", "m_attp", "m_0100", "a_atsp0", "a_0100", "a_atdpn",
     "t_attp", "t_0100"}

\* a run in which a call in progress goes on: every write and read of the
\* port returns (data, timeout or exception) and time.sleep returns.  The
\* loop of reconnect is weakly fair, and so is each step of _connect: the step
\* at point p is enabled exactly when pc = p and leaves p, so that its weak
\* fairness is []<>(pc # p), which is how it is written here.
FairSpec ==
    /\ Spec
    /\ WF_vars(ReconnectLoop)
    /\ \A p \in ConnectPcs : []<>(pc # p)

----------------------------------------------------------------------------
(* Vocabulary of the properties *)

Range(seq) == { seq[i] : i \in 1..Len(seq) }

\* _connect has returned to (or raised into) its caller
Returned == pc \in {"idle", "dead", "r_loop"} /\ cres # "none"

\* status, log and answers are those of a _connect call of the running operation
InConnect ==
    /\ op \in {"init", "reconnect"}
    /\ pc \in {"idle", "r_loop"} => cres # "none"

SetupCmds == <<"ATZ", "ATE0", "ATH1", "ATL0">>
SetupPcSeq == <<"c_atz", "c_ate0", "c_ath1", "c_atl0">>
SetupPcs == {"c_atz", "c_ate0", "c_ath1", "c_atl0"}

ExactlyOK(r) == r = <<"OK">>
SomeLineHas(r, text) == \E i \in 1..Len(r) : Contains(r[i], text)
SomeLineHasAnyCase(r, text) == \E i \in 1..Len(r) : Contains(upper(r[i]), text)

\* the four setup commands were written in order and each was answered as required
SetupPassed(ElmSeen(_)) ==
    LET k == IF params.start_low_power THEN 1 ELSE 0
    IN  /\ Len(answers) = 4
        /\ \A i \in 1..4 : answers[i].cmd = SetupCmds[i]
        /\ ElmSeen(answers[1].r)
        /\ SomeLineHas(answers[2].r, "OK")
        /\ ExactlyOK(answers[3].r)
        /\ ExactlyOK(answers[4].r)
        /\ Len(log) >= k + 4
        /\ SubSeq(log, k + 1, k + 4) = SetupCmds

\* a setup command is written only after the setup commands before it passed
SetupInOrder ==
    \A i \in 1..4 : SetupCmds[i] \in Range(log) => Len(answers) >= i - 1

\* a setup step that does not pass ends the attempt
FailedSetupStep ==
    (pc \in SetupPcs /\ answers' = answers)
        => /\ cres' = "False"
           /\ pc' \in {"idle", "r_loop"}
           /\ status' = NOT_CONNECTED
           /\ port' = "None"
           /\ ser' = "closed"
           /\ \/ log' = log
              \/ \E i \in 1..4 : pc = SetupPcSeq[i] /\ log' = Append(log, SetupCmds[i])

\* ELM_CONNECTED is entered by the step that passes the last setup command
EnteredAfterSetup ==
    (status # ELM_CONNECTED /\ status' = ELM_CONNECTED)
        => pc = "c_atl0" /\ pc' \in {"c_volt", "c_proto"}

ElmUpperCase(r) == SomeLineHas(r, "ELM")
ElmAnyCase(r) == SomeLineHasAnyCase(r, "ELM")

C2_StatusOrder ==
    [][status' # status =>
          \/ status' = NOT_CONNECTED
          \/ status = NOT_CONNECTED /\ status' = ELM_CONNECTED
          \/ status = ELM_CONNECTED /\ status' = OBD_CONNECTED
          \/ status = OBD_CONNECTED /\ status' = CAR_CONNECTED
          \/ status = ELM_CONNECTED /\ status' = CAR_CONNECTED
                /\ ~params.check_voltage]_vars

ProtocolCmdSent ==
    \E i \in 1..Len(log) :
        log[i] \in {"ATSP0", "0100", "ATDPN"} \/ StartsWith(log[i], "ATTP")

\* C3: with the voltage check requested and the setup passed, connect reads
\* the voltage (AT RV) and returns; when the status is left at ELM_CONNECTED
\* it returns False, keeps the port and sends no protocol selection command.
C3_VoltageCheck ==
    (InConnect /\ Returned /\ params.check_voltage /\ Len(answers) = 4)
        => /\ cres # "raised"
           /\ "AT RV" \in Range(log)
           /\ status = ELM_CONNECTED =>
                 cres = "False" /\ port = "obj" /\ ~ProtocolCmdSent

\* C4: when protocol selection fails, connect returns False with the status
\* still ELM_CONNECTED (OBD_CONNECTED after a voltage check) and the port held.
C4_ProtocolFailure ==
    [][(/\ pc \in {"c_proto", "m_0100", "t_0100"}
        /\ pc' \in {"idle", "dead", "r_loop"}
        /\ status' # CAR_CONNECTED)
          => /\ cres' = "False"
             /\ status' = IF params.check_voltage THEN OBD_CONNECTED
                                                  ELSE ELM_CONNECTED
             /\ port' = "obj"]_vars

C5_Order == <<"6", "8", "1", "7", "9", "2", "3", "4", "5", "A">>

RECURSIVE C5_Probes(_)
\* the probes of the ids from position i on: ATTP<id>, 0100, ...
C5_Probes(i) ==
    IF i > Len(C5_Order) THEN <<>>
    ELSE <<"ATTP" \o C5_Order[i], "0100">> \o C5_Probes(i + 1)

IsPrefix(a, b) == Len(a) <= Len(b) /\ SubSeq(b, 1, Len(a)) = a

\* what was written after ATDPN
AfterATDPN ==
    LET i == CHOOSE j \in 1..Len(log) : log[j] = "ATDPN"
    IN  SubSeq(log, i + 1, Len(log))

NoMarker(lines) ==
    /\ ~SomeLineHas(lines, "UNABLE TO CONNECT")
    /\ ~SomeLineHas(lines, "NO DATA")
    /\ ~SomeLineHas(lines, "BUS INIT: ...ERROR")
    /\ ~SomeLineHas(lines, "CAN ERROR")

\* one step of the trial loop on the reply to 0100
TrialStep ==
    pc = "t_0100" =>
        \/ /\ pc' = "t_attp"
           /\ ti' = ti + 1
           /\ ~NoMarker(r0100')
           /\ protocol' = protocol
        \/ /\ pc' \in {"idle", "dead", "r_loop"}
           /\ protocol' = [id |-> C5_Order[ti], lines |-> protocol'.lines]
           /\ NoMarker(protocol'.lines)
           /\ status' = CAR_CONNECTED
           /\ log' \in {log, Append(log, "0100")}
        \/ /\ pc' \in {"idle", "dead", "r_loop"}
           /\ ti = Len(C5_Order)
           /\ protocol' = protocol
           /\ cres' = "False"

\* C5: after an unsupported ATDPN id the ids are probed in the order
\* 6 8 1 7 9 2 3 4 5 A, each by ATTP<id> then 0100; the first id whose 0100
\* reply holds none of the four markers is selected and nothing is probed
\* after it.
C5_TrialOrder ==
    /\ [](InConnect /\ pc \in {"t_attp", "t_0100"} =>
            /\ ti \in 1..Len(C5_Order)
            /\ "ATDPN" \in Range(log)
            /\ IsPrefix(AfterATDPN, C5_Probes(1))
            /\ Len(AfterATDPN) <= 2 * (ti - 1) + (IF pc = "t_0100" THEN 1 ELSE 0))
    /\ [][pc = "a_atdpn" /\ pc' = "t_attp" => ti' = 1]_vars
    /\ [][pc = "t_attp" => pc' = "t_0100" /\ ti' = ti
              /\ log' \in {log, Append(log, "ATTP" \o C5_Order[ti])}]_vars
    /\ [][TrialStep]_vars

\* id 6 was refused and id 8, the second of the order, was selected
C5_Witness ==
    /\ op = "init"
    /\ pc = "idle"
    /\ status = CAR_CONNECTED
    /\ protocol.id = "8"
    /\ "ATDPN" \in Range(log)
    /\ AfterATDPN = <<"ATTP6", "0100", "ATTP8", "0100">>

\* C6: a port exception during connect or send_and_parse does not escape:
\* the call returns, the status is NOT_CONNECTED, the port closed and released.
C6_FaultContained ==
    (/\ fault
     /\ \/ InConnect /\ Returned
        \/ op = "send_and_parse" /\ pc = "idle")
        => /\ ret # "raised"
           /\ cres # "raised"
           /\ status = NOT_CONNECTED
           /\ port = "None"
           /\ ser = "closed"

\* C7: connect never raises, whatever the adapter replies.
C7_ConnectNeverRaises == InConnect => cres # "raised"

\* C8: a read that times out is not fatal: without a port exception an adapter
\* command leaves the status and the port as they were.
C8_TimeoutNotFatal ==
    [][(/\ pc = "idle"
        /\ op' \in {"send_and_parse", "low_power", "normal_power"}
        /\ ~fault')
          => status' = status /\ port' = port]_vars

\* C9: close() returns without raising, leaves NOT_CONNECTED with the port
\* released, and writes nothing when the port was already released, as on a
\* second close().
C9_Close ==
    [][(pc = "idle" /\ op' = "close")
          => /\ ret' = "None"
             /\ pc' = "idle"
             /\ status' = NOT_CONNECTED
             /\ port' = "None"
             /\ ser' # "open"
             /\ (port = "None" \/ op = "close") => log' = <<>>]_vars

\* close() after the write of ATZ raised
C9_Witness ==
    /\ op = "close"
    /\ pc = "idle"
    /\ fault
    /\ ser = "closed"
    /\ status = NOT_CONNECTED
    /\ port = "None"

\* the counters of a running reconnect
ReconnectCounts ==
    op = "reconnect" =>
        /\ attempt <= maxAtt
        /\ connects <= maxAtt
        /\ closes = attempt
        /\ connects = IF pc = "c_open" THEN attempt - 1 ELSE attempt
        /\ sleeps = IF attempt > 1 THEN attempt - 1 ELSE 0
        /\ ret = "True" => cres = "True" /\ pc = "idle"

\* the steps of a running reconnect
ReconnectStep ==
    /\ params' = params
    /\ (op = "reconnect" /\ pc # "c_open" /\ pc' = "c_open")
          => /\ cres # "True"
             /\ closes' = closes + 1
             /\ status' = NOT_CONNECTED
             /\ port' = "None"
    /\ (op = "reconnect" /\ pc # "idle" /\ cres' = "True")
          => pc' = "idle" /\ ret' = "True"

C11_ReconnectSuccess ==
    op = "reconnect" =>
        /\ (pc = "r_loop" /\ attempt >= 1) => status = NOT_CONNECTED
        /\ ret = "True" => status \in {ELM_CONNECTED, OBD_CONNECTED, CAR_CONNECTED}

\* C12: a reconnect that used up max_attempts without a True attempt returns
\* False with the status NOT_CONNECTED and the port released.
C12_ReconnectExhausted ==
    (op = "reconnect" /\ pc = "idle") =>
        /\ ret \in {"True", "False"}
        /\ ret = "True" <=> cres = "True"
        /\ (ret = "False" /\ params.portname # "") =>
              /\ attempt = maxAtt
              /\ connects = maxAtt
              /\ status = NOT_CONNECTED
              /\ port = "None"
              /\ ser # "open"

\* both attempts were made, the last one raised, and reconnect returned False
C12_Witness ==
    /\ op = "reconnect"
    /\ pc = "idle"
    /\ ret = "False"
    /\ maxAtt = 2
    /\ attempt = 2
    /\ cres = "raised"
    /\ status = NOT_CONNECTED
    /\ port = "None"

\* C13: send_and_parse on a session that is not connected writes nothing,
\* returns None and leaves status, port, low-power flag and protocol handler
\* as they were.
C13_SendWhenNotConnected ==
    [][(/\ pc = "idle"
        /\ op' = "send_and_parse"
        /\ (port = "None" \/ status = NOT_CONNECTED))
          => /\ ret' = "None"
             /\ log' = <<>>
             /\ status' = status
             /\ port' = port
             /\ ser' = ser
             /\ lowPower' = lowPower
             /\ protocol' = protocol]_vars

\* send_and_parse returned None on a session that close() had shut
C13_Witness ==
    /\ op = "send_and_parse"
    /\ pc = "idle"
    /\ ret = "None"
    /\ port = "None"
    /\ status = NOT_CONNECTED
    /\ protocol = NoProtocol
    /\ log = <<>>

\* normal_power is called on a connected session that is awake
AwakeNormalPower ==
    /\ pc = "idle"
    /\ op' = "normal_power"
    /\ is_connected(Cur)
    /\ ~lowPower

\* C15: normal_power on a connected session that is awake writes the wake
\* byte, returns without raising and, the port raising nothing, leaves the
\* status, the open port and the cleared low-power flag as they were, so that
\* a second call meets the state of the first.
C15_NormalPowerIdempotent ==
    [][(AwakeNormalPower /\ ~fault')
          => /\ log' = <<" ">>
             /\ ret' = "lines"
             /\ status' = status
             /\ port' = "obj"
             /\ ser' = "open"
             /\ lowPower' = FALSE]_vars

\* the low-power flag was set: the first command written is the wake byte
WokenFirst ==
    /\ lowPower' = FALSE
    /\ \E cmd \in Cmds : log' \in {<<>>, <<" ">>, <<" ", cmd>>}

\* C18: send_and_parse on a connected session with the low-power flag set
\* writes the wake byte before the command and clears the flag: the command
\* is never written first, and the flag is false afterwards.
C18_WakeBeforeCommand ==
    [][(/\ pc = "idle"
        /\ op' = "send_and_parse"
        /\ is_connected(Cur)
        /\ lowPower) => WokenFirst]_vars

\* send_and_parse has written the wake byte and then the command
C18_Witness ==
    /\ op = "send_and_parse"
    /\ pc = "idle"
    /\ log = <<" ", "0100">>
    /\ ~lowPower
    /\ status = CAR_CONNECTED
    /\ ret = "messages"

\* low_power or normal_power is called on a session that is not connected
PowerWhenNotConnected ==
    /\ pc = "idle"
    /\ op' \in {"low_power", "normal_power"}
    /\ (port = "None" \/ status = NOT_CONNECTED)

\* C25: low_power and normal_power on a session that is not connected return
\* None, write nothing to the port and leave the status and the low-power
\* flag as they were.
C25_PowerWhenNotConnected ==
    [][PowerWhenNotConnected
          => /\ ret' = "None"
             /\ log' = <<>>
             /\ status' = status
             /\ port' = port
             /\ ser' = ser
             /\ lowPower' = lowPower]_vars

\* low_power returned None on a session whose status says connected while
\* its port is gone
C25_Witness ==
    /\ op = "low_power"
    /\ pc = "idle"
    /\ ret = "None"
    /\ port = "None"
    /\ status # NOT_CONNECTED
    /\ log = <<>>

\* C26: reconnect on a session that has no port name returns False without
\* raising, without a close or a connection attempt, without opening a port
\* and without changing the status.
C26_ReconnectNoPortName ==
    [][(/\ pc = "idle"
        /\ op' = "reconnect"
        /\ params.portname = "")
          => /\ pc' = "idle"
             /\ ret' = "False"
             /\ closes' = 0
             /\ connects' = 0
             /\ log' = <<>>
             /\ status' = status
             /\ port' = port
             /\ ser' = ser]_vars

\* reconnect with two attempts allowed returned False at once on a session
\* made without a port name
C26_Witness ==
    /\ op = "reconnect"
    /\ pc = "idle"
    /\ ret = "False"
    /\ params.portname = ""
    /\ maxAtt = 2
    /\ attempt = 0
    /\ connects = 0

\* the line with a leading "A" dropped when it is longer than one character
DropAutoPrefix(p) ==
    IF Len(p) > 1 /\ SubSeq(p, 1, 1) = "A" THEN SubSeq(p, 2, Len(p)) ELSE p

\* the adapter answers ATDPN with one line that names a supported protocol
OneSupportedLine(in) ==
    LET r == send(Cur, "ATDPN", 0, in)
    IN  /\ Len(r.lines) = 1
        /\ DropAutoPrefix(r.lines[1]) \in SUPPORTED_PROTOCOLS

\* the handler of the protocol named by the ATDPN line is installed over the
\* lines received for 0100, _connect goes on past set_protocol, and ATDPN is
\* the last command written
InstalledFromAtdpn(in) ==
    LET r == send(Cur, "ATDPN", 0, in)
    IN  /\ protocol' = [id |-> DropAutoPrefix(r.lines[1]), lines |-> r0100]
        /\ status' = CAR_CONNECTED
        /\ pc' # "t_attp"
        /\ ti' = ti
        /\ log' = Append(log, "ATDPN")

\* C24: in auto_protocol, when ATDPN returns one line that is a supported
\* protocol id once a leading "A" is dropped (only from a line longer than
\* one character), the handler of exactly that id is installed over the
\* lines received for 0100, auto_protocol returns True and no ATTP is sent.
C24_AtdpnInstalls ==
    [][pc = "a_atdpn" =>
          \A in \in IOInputs(RepliesATDPN) :
             (OneSupportedLine(in) /\ AutoAtdpnOn(in)) => InstalledFromAtdpn(in)]_vars

\* the constructor finished on the protocol the adapter named with "A6":
\* ATDPN was the last command, the handler holds the 0100 reply
C24_Witness ==
    /\ op = "init"
    /\ pc = "idle"
    /\ cres = "True"
    /\ status = CAR_CONNECTED
    /\ protocol = [id |-> "6", lines |-> <<"41 00 BE 3E B8 13">>]
    /\ log[Len(log)] = "ATDPN"
    /\ params.protocol = "None"

\* the ids of the supported table
TableIds == {"1", "2", "3", "4", "5", "6", "7", "8", "9", "A"}

\* set_protocol is about to be called on a session that is not connected, or
\* with an explicit id outside the table
SetProtocolRefusing ==
    /\ pc = "c_proto"
    /\ \/ port = "None"
       \/ status = NOT_CONNECTED
       \/ ser # "open"
       \/ (params.protocol # "None" /\ params.protocol \notin TableIds)

\* C32: set_protocol returns False, writes nothing to the port and leaves the
\* installed protocol handler and the status unchanged when the session is not
\* connected or when an explicit protocol id outside the supported table
\* ('1'..'9', 'A') is given.
C32_SetProtocolRefuses ==
    [][SetProtocolRefusing =>
          /\ cres' = "False"
          /\ log' = log
          /\ protocol' = protocol
          /\ status' = status
          /\ port' = port
          /\ ser' = ser]_vars

\* the constructor was given the id "Z": the setup went through on a held
\* port, set_protocol refused, no ATTP was written
C32_Witness ==
    /\ op = "init"
    /\ pc = "idle"
    /\ cres = "False"
    /\ params.protocol = "Z"
    /\ port = "obj"
    /\ status \in {ELM_CONNECTED, OBD_CONNECTED}
    /\ protocol = UnknownProtocol
    /\ \A i \in 1 .. Len(log) : ~StartsWith(log[i], "ATTP")

\* C38: in every state of an ELM327 session, a status other than
\* NOT_CONNECTED means that the port is held.
C38_StatusImpliesPort ==
    status # NOT_CONNECTED => port # "None"

\* C39: whenever the status is CAR_CONNECTED the installed protocol handler
\* is one of the ten supported ones, and the step that sets CAR_CONNECTED,
\* which sends 0100 or uses the 0100 reply of the step before, starts with
\* the port still held.
C39_CarConnectedHandler ==
    /\ [](status = CAR_CONNECTED => protocol.id \in SUPPORTED_PROTOCOLS)
    /\ [][(status # CAR_CONNECTED /\ status' = CAR_CONNECTED) => port # "None"]_vars

----------------------------------------------------------------------------
(* decoders.py: parse_dtc *)

\* no ELM327 object exists: none of its operations can run
ElmOff ==
    /\ params = [portname |-> "", check_voltage |-> FALSE, manual |-> FALSE]
    /\ status = NOT_CONNECTED
    /\ protocol = UnknownProtocol
    /\ lowPower = FALSE
    /\ port = "None"
    /\ ser = "none"
    /\ pc = "off"
    /\ op = "none"
    /\ ret = "none"
    /\ cres = "none"
    /\ log = <<>>
    /\ answers = <<>>
    /\ fault = FALSE
    /\ timedOut = FALSE
    /\ r0100 = <<>>
    /\ ti = 0
    /\ attempt = 0
    /\ maxAtt = 0
    /\ closes = 0
    /\ connects = 0
    /\ sleeps = 0

\* the values of a byte
Bytes == 0 .. 255

\* the digits bytes_to_hex writes
HexDigits == "0123456789abcdef"

\* one hexadecimal digit, n in 0 .. 15
HexDigit(n) == SubSeq(HexDigits, n + 1, n + 1)

\* hex_tools.bytes_to_hex: two hexadecimal digits for each byte
RECURSIVE bytes_to_hex(_)
bytes_to_hex(bs) ==
    IF bs = <<>>
    THEN ""
    ELSE HexDigit(Head(bs) \div 16) \o HexDigit(Head(bs) % 16)
            \o bytes_to_hex(Tail(bs))

\* Python's s[1:4] on a string
Slice1to4(s) ==
    IF Len(s) < 2 THEN "" ELSE SubSeq(s, 2, IF Len(s) < 4 THEN Len(s) ELSE 4)

\* the letters parse_dtc indexes
DtcLetters == <<"P", "C", "B", "U">>

\* the Python containers parse_dtc is given: dtc() passes a list, single_dtc
\* a bytearray slice, a direct caller may pass a tuple
Forms == {"list", "tuple", "bytearray"}

\* Python's _bytes == (0, 0): a tuple equals only a tuple
EqualsZeroTuple(form, bs) == form = "tuple" /\ bs = <<0, 0>>

\* parse_dtc with the letter taken from the bits of the digit
parse_dtc_letter_from_digit_bits(form, bs) ==
    IF Len(bs) # 2 \/ EqualsZeroTuple(form, bs)
    THEN "None"
    ELSE DtcLetters[((bs[1] \div 16) % 4) + 1]
            \o HexDigit((bs[1] \div 16) % 4)
            \o Slice1to4(bytes_to_hex(bs))

\* decoders.parse_dtc: the code it returns ("None": it returns None); the
\* description returned with the code is looked up by the code and is left out
parse_dtc(form, bs) ==
    IF Len(bs) # 2 \/ EqualsZeroTuple(form, bs)
    THEN "None"
    ELSE DtcLetters[(bs[1] \div 64) + 1]
            \o HexDigit((bs[1] \div 16) % 4)
            \o Slice1to4(bytes_to_hex(bs))

\* codes.BASE_TESTS, SPARK_TESTS, COMPRESSION_TESTS ("None": a reserved
\* place, None in the source) and IGNITION_TYPE
BASE_TESTS ==
    <<"MISFIRE_MONITORING", "FUEL_SYSTEM_MONITORING", "COMPONENT_MONITORING">>

SPARK_TESTS ==
    <<"CATALYST_MONITORING", "HEATED_CATALYST_MONITORING",
      "EVAPORATIVE_SYSTEM_MONITORING", "SECONDARY_AIR_SYSTEM_MONITORING",
      "None", "OXYGEN_SENSOR_MONITORING", "OXYGEN_SENSOR_HEATER_MONITORING",
      "EGR_VVT_SYSTEM_MONITORING">>

COMPRESSION_TESTS ==
    <<"NMHC_CATALYST_MONITORING", "NOX_SCR_AFTERTREATMENT_MONITORING", "None",
      "BOOST_PRESSURE_MONITORING", "None", "EXHAUST_GAS_SENSOR_MONITORING",
      "PM_FILTER_MONITORING", "EGR_VVT_SYSTEM_MONITORING">>

IGNITION_TYPE == <<"spark", "compression">>

\* a list reversed: names[::-1]
Reversed(seq) == [i \in 1 .. Len(seq) |-> seq[Len(seq) + 1 - i]]

\* the bits of one byte with the least significant bit first
byte_bits_lsb_first(b) == [k \in 1 .. 8 |-> (b \div (2 ^ (k - 1))) % 2 = 1]

\* bitarray.frombytes on one byte: the most significant bit first
byte_bits(b) == [k \in 1 .. 8 |-> (b \div (2 ^ (8 - k))) % 2 = 1]

RECURSIVE BitArray(_)
\* BitArray(_bytearray): the bits of the bytes in order
BitArray(bs) ==
    IF bs = <<>> THEN <<>> ELSE byte_bits(Head(bs)) \o BitArray(Tail(bs))

RECURSIVE int_of_bits(_)
\* int(bits.to01(), 2)
int_of_bits(bits) ==
    IF bits = <<>> THEN 0
    ELSE 2 * int_of_bits(SubSeq(bits, 1, Len(bits) - 1))
            + (IF bits[Len(bits)] THEN 1 ELSE 0)

\* BitArray.value(start, stop): the slice is cut to the bits there are
BitArray_value(bits, start, stop) ==
    LET hi == IF stop < Len(bits) THEN stop ELSE Len(bits)
    IN  IF hi <= start THEN 0 ELSE int_of_bits(SubSeq(bits, start + 1, hi))

\* StatusTest(name, supported, ready) as the status decoder fills it
StatusTest(name, sup, rdy) ==
    [name |-> name, supported |-> sup, ready |-> rdy]

\* output.__dict__[name] = t
SetAttr(dict, name, t) ==
    [k \in DOMAIN dict \cup {name} |-> IF k = name THEN t ELSE dict[k]]

RECURSIVE load_tests(_, _, _, _, _, _)
\* for i, name in enumerate(names): the test of name is made of the bits
\* sup + i and rdy + i; rounds 0 .. i - 1
load_tests(dict, bits, names, sup, rdy, i) ==
    IF i = 0 THEN dict
    ELSE SetAttr(load_tests(dict, bits, names, sup, rdy, i - 1), names[i],
                 StatusTest(names[i], bits[sup + i], ~bits[rdy + i]))

\* decoders.status on messages[0].data ("raised": an index out of range
\* raises IndexError).  bits[k] of the source is bits[k + 1] here
decoders_status(data) ==
    LET d == SubSeq(data, 3, Len(data))
        bits == BitArray(d)
    IN  IF Len(bits) < 32
        THEN "raised"
        ELSE LET base == load_tests(<<>>, bits, Reversed(BASE_TESTS), 13, 9,
                                    Len(BASE_TESTS))
                 names == IF bits[13] THEN COMPRESSION_TESTS ELSE SPARK_TESTS
             IN  [MIL |-> bits[1],
                  DTC_count |-> BitArray_value(bits, 1, 8),
                  ignition_type |-> IGNITION_TYPE[(IF bits[13] THEN 1 ELSE 0) + 1],
                  tests |-> load_tests(base, bits, Reversed(names), 16, 24,
                                       Len(names))]

\* payloads of a status message after the mode and PID bytes: every second
\* byte with some first, third and fourth bytes, and payloads of other lengths
StatusPayloads ==
    ({0, 3, 128, 131, 255} \X Bytes \X {101, 255} \X {4, 0})
        \cup {<<>>, <<0>>, <<0, 7>>, <<0, 7, 101>>, <<0, 7, 101, 4, 0>>}

\* messages[0].data of a reply to mode 01 PID 01
StatusInputs == [data : { <<65, 1>> \o p : p \in StatusPayloads }]

\* models.Frame as the assembler reads it: the frame kind, the sequence index
\* of a consecutive frame, the length a first frame declares, the payload
CFrame(seq, payload) ==
    [type |-> "consecutive", seq_index |-> seq, data_len |-> 0, data |-> payload]

FFrame(len, payload) ==
    [type |-> "first", seq_index |-> 0, data_len |-> len, data |-> payload]

\* the first n bytes of a payload, all of it when it is shorter
Chop(bs, n) == IF Len(bs) > n THEN SubSeq(bs, 1, n) ELSE bs

RECURSIVE collect_any_index(_, _, _, _)
\* the consecutive frames taken in the order given, whatever their indices
collect_any_index(data, len, cfs, expected) ==
    IF Len(data) >= len \/ cfs = <<>>
    THEN Chop(data, len)
    ELSE collect_any_index(data \o Head(cfs).data, len, Tail(cfs), expected)

RECURSIVE collect(_, _, _, _)
\* the assembler's loop: while the declared length is not reached, the
\* consecutive frame with the next sequence index (modulo 16) is added; when
\* there is none the payload stays as it is
collect(data, len, cfs, expected) ==
    IF Len(data) >= len \/ ~\E i \in 1 .. Len(cfs) : cfs[i].seq_index = expected
    THEN Chop(data, len)
    ELSE LET i == CHOOSE j \in 1 .. Len(cfs) :
                     /\ cfs[j].seq_index = expected
                     /\ \A k \in 1 .. (j - 1) : cfs[k].seq_index # expected
         IN  collect(data \o cfs[i].data, len, cfs, (expected + 1) % 16)

\* the message assembled from the frames of one control unit that hold a
\* first frame: models.Message with its payload and its frame count
assemble(frames) ==
    LET ff == frames[CHOOSE i \in 1 .. Len(frames) : frames[i].type = "first"]
        cfs == SelectSeq(frames, LAMBDA f : f.type = "consecutive")
    IN  [data |-> collect(ff.data, ff.data_len, cfs, 1),
         num_frames |-> Len(frames)]

\* the payload of a consecutive frame: n bytes that tell the frame and the place
CfPayload(seq, n) == [k \in 1 .. n |-> 16 * seq + k]

\* consecutive frames of a reply: sequence indices 1..3 and 15, 5 or 7 bytes each
CFrames == { CFrame(q, CfPayload(q, n)) : q \in {1, 2, 3, 15}, n \in {5, 7} }

\* a first frame with 6 payload bytes declaring 13 or 20, then up to three
\* consecutive frames
SegmentedReplies ==
    { <<FFrame(len, <<1, 2, 3, 4, 5, 6>>)>> \o cfs :
        len \in {13, 20},
        cfs \in {<<>>} \cup (CFrames \X CFrames)
                    \cup (CFrames \X CFrames \X CFrames)
                    \cup {<<c>> : c \in CFrames} }

AssembleInputs == [frames : SegmentedReplies]

\* byte values used in arguments that are not pairs
FewBytes == {0, 1, 255}

\* the arguments of parse_dtc: every byte pair, and sequences of 0, 1 and 3 bytes
DtcArgs ==
    (Bytes \X Bytes) \cup {<<>>}
        \cup {<<a>> : a \in FewBytes}
        \cup (FewBytes \X FewBytes \X FewBytes)

DtcInputs == [form : Forms, bytes : DtcArgs]

\* Python's data[k:]
SliceFrom(data, k) == SubSeq(data, k + 1, Len(data))

\* dtc dropping two bytes of every message
dtc_payload_two_dropped(m) == SliceFrom(m.data, 2)

\* dtc lines 451-456: the bytes one message adds to d
dtc_payload(m) ==
    IF ~m.can THEN SliceFrom(m.data, 2)
    ELSE IF m.num_frames = 1 THEN SliceFrom(m.data, 1)
    ELSE IF m.num_frames > 1 THEN SliceFrom(m.data, 0)
    ELSE <<>>

\* dtc lines 449-456: d after the loop over the messages
RECURSIVE dtc_bytes(_)
dtc_bytes(messages) ==
    IF messages = <<>> THEN <<>>
    ELSE dtc_payload(Head(messages)) \o dtc_bytes(Tail(messages))

\* dtc lines 462-468: the loop for n in range(1, len(d), 2), n counted from 1
RECURSIVE dtc_codes(_, _, _)
dtc_codes(d, n, codes) ==
    IF n + 1 > Len(d) THEN codes
    ELSE LET code == parse_dtc("list", <<d[n], d[n + 1]>>)
         IN  dtc_codes(d, n + 2,
                       IF code # "None" /\ code # "P0000"
                       THEN Append(codes, code) ELSE codes)

\* decoders.dtc: the codes it returns
decoders_dtc(messages) == dtc_codes(dtc_bytes(messages), 1, <<>>)

\* the data of the messages dtc is given: replies to mode 03 with and without
\* codes, with padding, cut short, and of odd length
DtcData ==
    { <<>>, <<67>>, <<67, 2>>, <<67, 2, 2, 1, 3, 1>>, <<67, 0, 0, 0, 0>>,
      <<0, 0, 1, 3>>, <<1, 3, 196, 32, 0>> }

\* Message objects as dtc reads them
DtcMessages == [can : BOOLEAN, num_frames : 0 .. 2, data : DtcData]

\* dtc is given one message, or two
DtcCallInputs ==
    [messages : {<<m>> : m \in DtcMessages}
                  \cup {<<m1, m2>> : m1 \in DtcMessages, m2 \in DtcMessages}]

\* codes.TEST_IDS: the name of test id k is TEST_NAMES[k]
TEST_NAMES ==
    <<"RTL_THRESHOLD_VOLTAGE", "LTR_THRESHOLD_VOLTAGE", "LOW_VOLTAGE_SWITCH_TIME",
      "HIGH_VOLTAGE_SWITCH_TIME", "RTL_SWITCH_TIME", "LTR_SWITCH_TIME",
      "MIN_VOLTAGE", "MAX_VOLTAGE", "TRANSITION_TIME", "SENSOR_PERIOD",
      "MISFIRE_AVERAGE", "MISFIRE_COUNT">>

\* the keys of UAS_IDS whose UAS is unsigned, and signed; the entry of the
\* key 0x2E is a function that tells whether any byte is not zero
UAS_UNSIGNED == (1 .. 45) \cup (47 .. 65)

UAS_ANY_BYTE == {46}

UAS_SIGNED ==
    {129, 130, 131, 132, 133, 134, 135, 138, 139, 140, 141, 142, 144, 150, 153,
     156, 157, 168, 169, 173, 174, 175, 176, 177, 252, 253, 254}

\* UAS.__call__ on two bytes: int.from_bytes(_bytes, "big", signed), to be
\* scaled as the UAS of this id says
uas_call(id, bs) ==
    LET n == bs[1] * 256 + bs[2]
    IN  [uas |-> id,
         raw |-> IF id \in UAS_ANY_BYTE THEN (IF n # 0 THEN 1 ELSE 0)
                 ELSE IF id \in UAS_SIGNED /\ n >= 32768 THEN n - 65536
                 ELSE n]

\* UAS_IDS.get(id, None) finds an entry
uas_known(id) == id \in UAS_UNSIGNED \cup UAS_ANY_BYTE \cup UAS_SIGNED

\* an attribute of a MonitorTest that was not assigned
Unset == [uas |-> -1, raw |-> 0]

\* MonitorTest() with the name and the description of line 479-485
NamedTest(tid) ==
    [tid |-> -1,
     name |-> IF tid \in 1 .. Len(TEST_NAMES) THEN TEST_NAMES[tid] ELSE "Unknown",
     value |-> Unset, min |-> Unset, max |-> Unset]

\* parse_monitor_test returning the named test for an unknown UAS id
parse_monitor_test_partial(d) ==
    IF ~uas_known(d[3])
    THEN <<NamedTest(d[2])>>
    ELSE <<[NamedTest(d[2]) EXCEPT !.tid = d[2],
                                !.value = uas_call(d[3], SubSeq(d, 4, 5)),
                                !.min = uas_call(d[3], SubSeq(d, 6, 7)),
                                !.max = uas_call(d[3], SubSeq(d, 8, Len(d)))]>>

\* decoders.parse_monitor_test on a block of 9 bytes: the test it returns, or
\* none when it returns None
parse_monitor_test(d) ==
    IF ~uas_known(d[3])
    THEN <<>>
    ELSE <<[NamedTest(d[2]) EXCEPT !.tid = d[2],
                                !.value = uas_call(d[3], SubSeq(d, 4, 5)),
                                !.min = uas_call(d[3], SubSeq(d, 6, 7)),
                                !.max = uas_call(d[3], SubSeq(d, 8, Len(d)))]>>

\* monitor lines 519-524: the tests handed to mon.add_test, in order
RECURSIVE monitor_tests(_, _, _)
monitor_tests(d, n, added) ==
    IF n > Len(d) THEN added
    ELSE LET test == parse_monitor_test(SubSeq(d, n, n + 8))
         IN  monitor_tests(d, n + 9, added \o test)

\* decoders.monitor: the tests it adds to the Monitor it returns
decoders_monitor(data) ==
    LET d == SliceFrom(data, 1)
    IN  monitor_tests(SubSeq(d, 1, Len(d) - (Len(d) % 9)), 1, <<>>)

\* most records in a reply to a mode 06 request
MaxRecords == 2

\* records of 9 bytes: a known and an unknown test id, with an unsigned and a
\* signed UAS id, the id 0x2E and two unknown UAS ids
MonitorRecords ==
    {<<1, tid, uas, 255, 254, 0, 1, 2, 0>> : tid \in {1, 200}, uas \in {1, 129, 46, 66, 0}}

RECURSIVE RecordRuns(_)
RecordRuns(n) ==
    IF n = 0 THEN {<<>>}
    ELSE {r \o rec : r \in RecordRuns(n - 1), rec \in MonitorRecords}

\* the data of messages[0]: the mode byte, records, and a cut record or none;
\* or nothing at all
MonitorInputs ==
    [mdata : {<<>>} \cup {<<70>> \o r \o t :
                            r \in UNION {RecordRuns(n) : n \in 0 .. MaxRecords},
                            t \in {<<>>, <<1>>, <<1, 200, 1, 0>>}}]

\* Python's truth value of a value written as Python prints it
truthy(v) == v \notin {"None", "0", "''", "[]", "False"}

\* what the decoder of a command does with the messages: it returns a value
\* (written as Python prints it) or raises an exception
DecoderOutcomes ==
    [raises : {FALSE}, value : {"None", "0", "''", "50.2", "[]"}]
        \cup [raises : {TRUE}, value : {"KeyError", "IndexError"}]

\* OBDResponse(command, messages): no command, an object without decode, or
\* a command with a decoder; no messages, an empty list, or messages
ResponseInputs ==
    [command : {"None", "no decode", "command"},
     messages : {"None", "[]", "[msg]"},
     decoder : DecoderOutcomes]

\* except Exception: the exceptions of a decoder it catches (lookups of
\* unknown ids, indexing of short payloads, bad values)
caught(e) == e \in {"KeyError", "IndexError", "ValueError", "TypeError"}

\* is_null testing the truth of the value
is_null_falsy(messages, value) == ~truthy(messages) \/ ~truthy(value)

\* OBDResponse.is_null
is_null(messages, value) == ~truthy(messages) \/ value = "None"

\* OBDResponse.__init__ with _decode_value, and is_null() of the object made
OBDResponse(x) ==
    LET messages == IF truthy(x.messages) THEN x.messages ELSE "[]"
        decoding == truthy(messages) /\ x.command = "command"
        value == IF decoding /\ ~x.decoder.raises THEN x.decoder.value ELSE "None"
    IN  [raised |-> decoding /\ x.decoder.raises /\ ~caught(x.decoder.value),
         messages |-> messages, value |-> value,
         is_null |-> is_null(messages, value)]

\* is_contiguous looking at the two ends only
is_contiguous_ends_only(l, start, end) ==
    l # <<>> /\ l[1] = start /\ l[Len(l)] = end

\* contiguous.is_contiguous: the tests of lines 3-8, then of the pairs
\* zip(l, l[1:])
is_contiguous(l, start, end) ==
    IF l = <<>> THEN FALSE
    ELSE IF l[1] # start THEN FALSE
    ELSE IF l[Len(l)] # end THEN FALSE
    ELSE \A i \in 1 .. (Len(l) - 1) : l[i] + 1 = l[i + 1]

\* most elements of a list given to is_contiguous
MaxList == 4

\* the integers in the lists and the ends asked for
ListValues == 0 .. 3

RECURSIVE ListsOfLen(_)
ListsOfLen(n) ==
    IF n = 0 THEN {<<>>}
    ELSE {Append(l, x) : l \in ListsOfLen(n - 1), x \in ListValues}

ContiguousInputs ==
    [l : UNION {ListsOfLen(n) : n \in 0 .. MaxList},
     start : ListValues, end : ListValues]

DecodeInit ==
    /\ ElmOff
    /\ NoDetect
    /\ NoConn
    /\ fn = "none"
    /\ fnIn \in DtcInputs \cup StatusInputs \cup AssembleInputs \cup DtcCallInputs
                \cup MonitorInputs \cup ResponseInputs
                \cup ContiguousInputs
    /\ fnOut = "none"

\* a call parse_dtc(_bytes)
ParseDtc ==
    /\ fn = "none"
    /\ fnIn \in DtcInputs
    /\ fn' = "parse_dtc"
    /\ fnOut' = parse_dtc(fnIn.form, fnIn.bytes)
    /\ UNCHANGED <<fnIn, elmVars, baudVars, connVars>>

\* a call status(messages)
DecodeStatus ==
    /\ fn = "none"
    /\ fnIn \in StatusInputs
    /\ fn' = "status"
    /\ fnOut' = decoders_status(fnIn.data)
    /\ UNCHANGED <<fnIn, elmVars, baudVars, connVars>>

\* the assembler is given the frames of one reply
Assemble ==
    /\ fn = "none"
    /\ fnIn \in AssembleInputs
    /\ fn' = "assemble"
    /\ fnOut' = assemble(fnIn.frames)
    /\ UNCHANGED <<fnIn, elmVars, baudVars, connVars>>

\* a call dtc(messages)
DecodeDtc ==
    /\ fn = "none"
    /\ fnIn \in DtcCallInputs
    /\ fn' = "dtc"
    /\ fnOut' = decoders_dtc(fnIn.messages)
    /\ UNCHANGED <<fnIn, elmVars, baudVars, connVars>>

\* a call monitor(messages)
DecodeMonitor ==
    /\ fn = "none"
    /\ fnIn \in MonitorInputs
    /\ fn' = "monitor"
    /\ fnOut' = decoders_monitor(fnIn.mdata)
    /\ UNCHANGED <<fnIn, elmVars, baudVars, connVars>>

\* OBDResponse(command, messages) is constructed and asked is_null()
MakeResponse ==
    /\ fn = "none"
    /\ fnIn \in ResponseInputs
    /\ fn' = "OBDResponse"
    /\ fnOut' = OBDResponse(fnIn)
    /\ UNCHANGED <<fnIn, elmVars, baudVars, connVars>>

\* a call is_contiguous(l, start, end)
IsContiguous ==
    /\ fn = "none"
    /\ fnIn \in ContiguousInputs
    /\ fn' = "is_contiguous"
    /\ fnOut' = is_contiguous(fnIn.l, fnIn.start, fnIn.end)
    /\ UNCHANGED <<fnIn, elmVars, baudVars, connVars>>

DecodeNext ==
    \/ ParseDtc
    \/ DecodeStatus
    \/ Assemble
    \/ DecodeDtc
    \/ DecodeMonitor
    \/ MakeResponse
    \/ IsContiguous

DecodeSpec == DecodeInit /\ [][DecodeNext]_vars

\* the value of a hexadecimal digit, in either case
HexValue(c) ==
    CHOOSE n \in 0 .. 15 :
        c \in {SubSeq("0123456789abcdef", n + 1, n + 1),
               SubSeq("0123456789ABCDEF", n + 1, n + 1)}

\* the character at position i of a string
CharAt(s, i) == SubSeq(s, i, i)

\* bits 7-6 and bits 5-4 of a byte
TopTwoBits(b) == CHOOSE k \in 0 .. 3 : 64 * k <= b /\ b < 64 * (k + 1)
NextTwoBits(b) ==
    CHOOSE d \in 0 .. 3 : \E r \in 0 .. 15 : b = 64 * TopTwoBits(b) + 16 * d + r

\* code is the trouble code of the byte pair (b0, b1)
IsDtcOf(code, b0, b1) ==
    /\ Len(code) = 5
    /\ CharAt(code, 1) = <<"P", "C", "B", "U">>[TopTwoBits(b0) + 1]
    /\ CharAt(code, 2) = <<"0", "1", "2", "3">>[NextTwoBits(b0) + 1]
    /\ HexValue(CharAt(code, 3)) = b0 % 16
    /\ HexValue(CharAt(code, 4)) = b1 \div 16
    /\ HexValue(CharAt(code, 5)) = b1 % 16

\* C19: parse_dtc of a byte pair other than (0, 0) returns the 5-character
\* code made of the letter selected by the top 2 bits of the first byte, the
\* digit of its next 2 bits and the three hexadecimal digits of the remaining
\* 12 bits; an argument whose length is not 2 yields no code.
C19_DtcCode ==
    fn = "parse_dtc" =>
        /\ Len(fnIn.bytes) # 2 => fnOut = "None"
        /\ (Len(fnIn.bytes) = 2 /\ fnIn.bytes # <<0, 0>>) =>
              IsDtcOf(fnOut, fnIn.bytes[1], fnIn.bytes[2])
        /\ fnIn.bytes = <<3, 1>> => fnOut = "P0301"
        /\ fnIn.bytes = <<69, 97>> => fnOut = "C0561"

\* parse_dtc has returned the code of a pair whose 12 low bits need letters
C19_Witness ==
    /\ fn = "parse_dtc"
    /\ fnIn.bytes = <<218, 188>>
    /\ fnOut = "U1abc"

\* C20: parse_dtc of the byte pair (0, 0) returns None, for a list as for a
\* tuple.
C20_ZeroPairNoCode ==
    (fn = "parse_dtc" /\ fnIn.bytes = <<0, 0>> /\ fnIn.form \in {"list", "tuple"})
        => fnOut = "None"

\* bit k of a payload, bit 0 being the most significant bit of its first byte
PayloadBit(d, k) == (d[(k \div 8) + 1] \div (2 ^ (7 - (k % 8)))) % 2 = 1

\* the payload of the message decoded
StatusPayload == SubSeq(fnIn.data, 3, Len(fnIn.data))

\* the base test name has its supported flag from bit sup and is ready when
\* bit notReady is clear
BaseTestFrom(name, sup, notReady) ==
    /\ name \in DOMAIN fnOut.tests
    /\ fnOut.tests[name].supported = PayloadBit(StatusPayload, sup)
    /\ fnOut.tests[name].ready = ~PayloadBit(StatusPayload, notReady)

\* C21: the status decoder reads from the payload after the mode and PID
\* bytes, bit 0 being the most significant bit of the first byte: MIL from
\* bit 0, the DTC count from bits 1..7, the ignition type from bit 12, and for
\* the base tests MISFIRE, FUEL_SYSTEM, COMPONENT the supported flag from
\* bits 15, 14, 13 and the ready flag as the negation of bits 11, 10, 9; for
\* the payload 00 07 65 04 MIL is false, the spark table is used and the
\* three base tests are supported and ready.
C21_StatusBits ==
    (fn = "status" /\ Len(StatusPayload) >= 4) =>
        /\ fnOut.MIL = PayloadBit(StatusPayload, 0)
        /\ fnOut.DTC_count = StatusPayload[1] % 128
        /\ fnOut.ignition_type =
              (IF PayloadBit(StatusPayload, 12) THEN "compression" ELSE "spark")
        /\ BaseTestFrom("MISFIRE_MONITORING", 15, 11)
        /\ BaseTestFrom("FUEL_SYSTEM_MONITORING", 14, 10)
        /\ BaseTestFrom("COMPONENT_MONITORING", 13, 9)
        /\ ("CATALYST_MONITORING" \in DOMAIN fnOut.tests)
              = ~PayloadBit(StatusPayload, 12)
        /\ ("NMHC_CATALYST_MONITORING" \in DOMAIN fnOut.tests)
              = PayloadBit(StatusPayload, 12)
        /\ StatusPayload = <<0, 7, 101, 4>> =>
              /\ ~fnOut.MIL
              /\ fnOut.ignition_type = "spark"
              /\ \A i \in 1 .. 3 :
                    /\ fnOut.tests[BASE_TESTS[i]].supported
                    /\ fnOut.tests[BASE_TESTS[i]].ready

\* the payload 83 0B FF 00 was decoded: MIL on, three codes, compression
\* ignition, misfire test supported, component test not, both ready
C21_Witness ==
    /\ fn = "status"
    /\ fnIn.data = <<65, 1, 131, 11, 255, 0>>
    /\ fnOut.MIL
    /\ fnOut.DTC_count = 3
    /\ fnOut.ignition_type = "compression"
    /\ fnOut.tests["MISFIRE_MONITORING"] =
          [name |-> "MISFIRE_MONITORING", supported |-> TRUE, ready |-> TRUE]
    /\ fnOut.tests["COMPONENT_MONITORING"] =
          [name |-> "COMPONENT_MONITORING", supported |-> FALSE, ready |-> TRUE]

\* the sequence indices of the frames after the first, in the order received
IndicesAfterFirst ==
    [i \in 1 .. (Len(fnIn.frames) - 1) |-> fnIn.frames[i + 1].seq_index]

RECURSIVE PayloadsInOrder(_)
\* the payloads of frames one after the other
PayloadsInOrder(frames) ==
    IF frames = <<>> THEN <<>>
    ELSE Head(frames).data \o PayloadsInOrder(Tail(frames))

\* C23: a first frame declaring length 20 followed by consecutive frames with
\* the sequence indices 1, 2, 3 assembles to exactly 20 payload bytes in
\* frame order; without the middle consecutive frame the message has fewer
\* than 20 bytes (is incomplete), and the assembler still returns a message.
C23_SegmentedReassembly ==
    (fn = "assemble" /\ fnIn.frames[1].data_len = 20) =>
        /\ IndicesAfterFirst = <<1, 2, 3>> =>
              /\ Len(fnOut.data) = 20
              /\ fnOut.data = SubSeq(PayloadsInOrder(fnIn.frames), 1, 20)
        /\ IndicesAfterFirst = <<1, 3>> =>
              /\ Len(fnOut.data) < 20
              /\ fnOut.num_frames = 3

\* first frame and the frames 1 and 3 of seven bytes each were assembled: the
\* payload ends with frame 1 after 13 bytes
C23_Witness ==
    /\ fn = "assemble"
    /\ fnIn.frames[1].data_len = 20
    /\ IndicesAfterFirst = <<1, 3>>
    /\ Len(fnIn.frames[3].data) = 7
    /\ fnOut.data = <<1, 2, 3, 4, 5, 6, 17, 18, 19, 20, 21, 22, 23>>

\* the leading bytes dropped from the data of a message: two of a message
\* that is not CAN, one of a CAN message of one frame, none of a CAN message
\* of more frames
LeadingDropped(m) == IF ~m.can THEN 2 ELSE IF m.num_frames = 1 THEN 1 ELSE 0

\* the payloads of the messages without their leading bytes, one after another
RECURSIVE RemainingBytes(_)
RemainingBytes(messages) ==
    IF messages = <<>> THEN <<>>
    ELSE LET m == Head(messages)
         IN  SubSeq(m.data, LeadingDropped(m) + 1, Len(m.data))
                \o RemainingBytes(Tail(messages))

\* the consecutive byte pairs of bs, in order, an odd last byte left out
BytePairs(bs) == [k \in 1 .. (Len(bs) \div 2) |-> <<bs[2 * k - 1], bs[2 * k]>>]

\* the pairs that stand for a code: P0000 is the code of the pair (0, 0)
CodePairs(bs) == SelectSeq(BytePairs(bs), LAMBDA p : p # <<0, 0>>)

\* every message has frames: one, or more
AllFramed(messages) == \A i \in 1 .. Len(messages) : messages[i].num_frames >= 1

RecordsOf(data) ==
    [k \in 1 .. ((IF data = <<>> THEN 0 ELSE Len(data) - 1) \div 9) |->
        SubSeq(data, 9 * k - 7, 9 * k + 1)]

\* the UAS id of a record, its third byte, is in the UAS table
UasKnown(rec) == rec[3] \in (1 .. 65) \cup UAS_SIGNED

\* a test that is whole: it has its id and its three values
WholeTest(t) == t.tid >= 0 /\ t.value.uas >= 0 /\ t.min.uas >= 0 /\ t.max.uas >= 0

\* C34: monitor drops the mode byte, truncates the rest to a multiple of 9
\* bytes and decodes each record of 9 bytes on its own: a record whose UAS
\* id (its byte 3) is not in the UAS table adds no test, never a partial one;
\* a record with an unknown test id is kept under the name "Unknown"; at
\* most floor(len/9) tests are added.
C34_MonitorRecords ==
    fn = "monitor" =>
        LET recs == SelectSeq(RecordsOf(fnIn.mdata), UasKnown)
        IN  /\ Len(fnOut) = Len(recs)
            /\ Len(fnOut) <= (IF fnIn.mdata = <<>> THEN 0 ELSE Len(fnIn.mdata) - 1) \div 9
            /\ \A i \in 1 .. Len(fnOut) :
                  /\ WholeTest(fnOut[i])
                  /\ fnOut[i].tid = recs[i][2]
                  /\ recs[i][2] \notin 1 .. 12 <=> fnOut[i].name = "Unknown"
                  /\ fnOut[i].value.uas = recs[i][3]

\* of two records the first has an unknown UAS id and adds nothing, the
\* second has an unknown test id and a signed UAS: it is kept as "Unknown"
C34_Witness ==
    /\ fn = "monitor"
    /\ fnIn.mdata = <<70, 1, 1, 66, 255, 254, 0, 1, 2, 0,
                          1, 200, 129, 255, 254, 0, 1, 2, 0, 1>>
    /\ Len(fnOut) = 1
    /\ fnOut[1].name = "Unknown"
    /\ fnOut[1].value = [uas |-> 129, raw |-> -2]
    /\ fnOut[1].max = [uas |-> 129, raw |-> 512]

\* the decoder of the command was run on the messages
DecoderRan == fnIn.command = "command" /\ fnIn.messages = "[msg]"

\* C35: constructing an OBDResponse never raises because of the decoder: when
\* the decoder raises on the messages the value is None and is_null() is
\* true; is_null() is true exactly when there are no messages or the value is
\* None, so a decoded value of 0 or of the empty string is not null.
C35_ResponseNeverRaises ==
    fn = "OBDResponse" =>
        /\ ~fnOut.raised
        /\ (DecoderRan /\ fnIn.decoder.raises) =>
              fnOut.value = "None" /\ fnOut.is_null
        /\ fnOut.is_null <=> (fnIn.messages \in {"None", "[]"} \/ fnOut.value = "None")
        /\ (DecoderRan /\ ~fnIn.decoder.raises) => fnOut.value = fnIn.decoder.value
        /\ fnOut.value \in {"0", "''"} => ~fnOut.is_null

\* the decoder raised KeyError on the messages: the response was made, its
\* value is None and it is null
C35_Witness ==
    /\ fn = "OBDResponse"
    /\ fnIn.command = "command"
    /\ fnIn.messages = "[msg]"
    /\ fnIn.decoder = [raises |-> TRUE, value |-> "KeyError"]
    /\ fnOut = [raised |-> FALSE, messages |-> "[msg]", value |-> "None",
                is_null |-> TRUE]

\* the sequence a, a + 1, ..., b (empty when b < a)
Run(a, b) == [i \in 1 .. (b - a + 1) |-> a + i - 1]

\* C36: is_contiguous(l, start, end) is true exactly when l is the non-empty
\* sequence start, start + 1, ..., end: false for the empty list, a wrong
\* first or last element, a gap or a repetition between neighbours.
C36_Contiguous ==
    fn = "is_contiguous" =>
        /\ fnOut <=> (fnIn.l # <<>> /\ fnIn.l = Run(fnIn.start, fnIn.end))
        /\ fnIn.l = <<>> => ~fnOut
        /\ (\E i \in 1 .. (Len(fnIn.l) - 1) : fnIn.l[i + 1] # fnIn.l[i] + 1) => ~fnOut

\* the list 1, 2, 3 was found contiguous from 1 to 3
C36_Witness ==
    /\ fn = "is_contiguous"
    /\ fnIn = [l |-> <<1, 2, 3>>, start |-> 1, end |-> 3]
    /\ fnOut = TRUE

----------------------------------------------------------------------------
(* elm327.py: detect_elm327_baudrate, _test_baudrate *)

\* ELM327._TRY_BAUDS
TRY_BAUDS ==
    <<38400, 9600, 115200, 57600, 19200, 14400, 3000000, 2000000, 1000000,
      250000, 230400, 128000, 500000, 460800, 500000, 576000, 921600, 1000000,
      1152000, 1500000, 2000000, 2500000, 3000000, 3500000, 4000000>>

\* the text Python writes for one byte of a bytes object, for the bytes of
\* the replies below
ByteRepr(b) ==
    CASE b = 13 -> "\\r"
      [] b = 51 -> "3"
      [] b = 62 -> ">"
      [] b = 63 -> "?"
      [] b = 69 -> "E"
      [] b = 76 -> "L"
      [] b = 77 -> "M"
      [] b = 101 -> "e"
      [] b = 108 -> "l"
      [] b = 109 -> "m"
      [] b = 127 -> "\\x7f"
      [] b = 142 -> "\\x8e"

RECURSIVE BytesBody(_)
BytesBody(bs) ==
    IF bs = <<>> THEN "" ELSE ByteRepr(Head(bs)) \o BytesBody(Tail(bs))

\* Python: str(response) of a bytes object
StrOfBytes(bs) == "b'" \o BytesBody(bs) \o "'"

\* b'\x7F\x7F\r', the probe _test_baudrate writes
BaudProbe == <<127, 127, 13>>

\* _test_baudrate lines 988: the test of the reply without its second alternative
baud_reply_ok_elm_only(response) ==
    Contains(upper(StrOfBytes(response)), "ELM")

\* _test_baudrate line 988: the test of the reply
baud_reply_ok(response) ==
    \/ Contains(upper(StrOfBytes(response)), "ELM")
    \/ /\ Contains(response, BaudProbe)
       /\ Len(response) > 0
       /\ response[Len(response)] = 62

\* replies port.read(1024) returns to a probe: nothing, "ELM3>", "elm3>",
\* the echo with the prompt, the echo alone, the prompt before the echo, "?>",
\* the bytes 0x8E "lm", ">"
BaudReplies ==
    { <<>>,
      <<69, 76, 77, 51, 62>>,
      <<101, 108, 109, 51, 62>>,
      <<127, 127, 13, 62>>,
      <<127, 127, 13>>,
      <<62, 127, 127, 13>>,
      <<63, 62>>,
      <<142, 108, 109>>,
      <<62>> }

\* what one _test_baudrate meets: the port refuses the rate, the write or the
\* read times out, the port raises another exception (from flush, write or
\* read), or a reply is read
ProbeOutcomes ==
    {[kind |-> k, bytes |-> <<>>] :
        k \in {"baud_unsupported", "write_timeout", "read_timeout", "port_error"}}
    \cup {[kind |-> "reply", bytes |-> r] : r \in BaudReplies}

\* _test_baudrate: its return value for an outcome that lets it return
test_baudrate(out) == out.kind = "reply" /\ baud_reply_ok(out.bytes)

\* values of a timeout of the port
TimeoutValues == {"0.1", "1", "10"}

\* the names of the ports set_baudrate is called on: two pseudo-terminals, a
\* serial adapter and a name that only holds /dev/pts further on
PortNames == {"/dev/pts/0", "/dev/pts/12", "/dev/ttyUSB0", "/tmp/dev/pts/0"}

\* the calls of set_baudrate: no rate requested (baud_rate None), or one of
\* two rates; psuedo_baud_rate keeps its default
BaudCalls ==
    [given : {FALSE}, rate : {0}, portstr : PortNames]
        \cup [given : {TRUE}, rate : {38400, 115200}, portstr : PortNames]

\* the default of the parameter psuedo_baud_rate of set_baudrate, line 326
psuedo_baud_rate == 38400

\* a port is open, with the timeouts its owner gave it (__open_serial_port
\* gives timeout 10 and the write timeout of the ELM327), and set_baudrate
\* is called on it
BaudInit ==
    /\ ElmOff
    /\ NoFn
    /\ NoConn
    /\ baudCall \in BaudCalls
    /\ bpc = "set"
    /\ bi = 0
    /\ found = FALSE
    /\ saved = "none"
    /\ portTimeout \in TimeoutValues
    /\ portWriteTimeout \in TimeoutValues
    /\ orig = [timeout |-> portTimeout, write_timeout |-> portWriteTimeout]
    /\ portBaud = 9600
    /\ probe = NoProbe
    /\ restored = "none"
    /\ bret = NoBaudReturn

\* set_baudrate without the test of the port name: no requested rate always
\* goes to the detection
SetBaudrate_AlwaysDetects ==
    /\ bpc = "set"
    /\ IF ~baudCall.given
       THEN /\ bpc' = "start"
            /\ UNCHANGED <<portBaud, bret>>
       ELSE \E bad \in BOOLEAN :
              /\ bpc' = "returned"
              /\ portBaud' \in IF bad THEN {portBaud, baudCall.rate} ELSE {baudCall.rate}
              /\ bret' = IF bad THEN [kind |-> "None", baud |-> 0]
                                ELSE [kind |-> "baud", baud |-> baudCall.rate]
    /\ UNCHANGED <<bi, found, saved, orig, portTimeout, portWriteTimeout, probe,
                   restored, baudCall, elmVars, fnVars, connVars>>

\* set_baudrate, lines 326-352, up to its return or to the call of
\* detect_elm327_baudrate (auto_detect_baudrate passes the port on): with no
\* requested rate, a port named /dev/pts... is given psuedo_baud_rate, which
\* a pseudo-terminal accepts, and any other port goes to the detection; a
\* requested rate is assigned, and a port that raises SerialException on the
\* assignment makes the result None
SetBaudrate ==
    /\ bpc = "set"
    /\ IF ~baudCall.given
       THEN IF StartsWith(baudCall.portstr, "/dev/pts")
            THEN /\ portBaud' = psuedo_baud_rate
                 /\ bret' = [kind |-> "baud", baud |-> psuedo_baud_rate]
                 /\ bpc' = "returned"
            ELSE /\ bpc' = "start"
                 /\ UNCHANGED <<portBaud, bret>>
       ELSE \E bad \in BOOLEAN :
              /\ bpc' = "returned"
              /\ portBaud' \in IF bad THEN {portBaud, baudCall.rate} ELSE {baudCall.rate}
              /\ bret' = IF bad THEN [kind |-> "None", baud |-> 0]
                                ELSE [kind |-> "baud", baud |-> baudCall.rate]
    /\ UNCHANGED <<bi, found, saved, orig, portTimeout, portWriteTimeout, probe,
                   restored, baudCall, elmVars, fnVars, connVars>>

\* detect_elm327_baudrate lines 909-913
DetectStart ==
    /\ bpc = "start"
    /\ saved' = portTimeout
    /\ portTimeout' = "0.1"
    /\ portWriteTimeout' = "0.1"
    /\ found' = FALSE
    /\ bi' = 1
    /\ bpc' = "loop"
    /\ UNCHANGED <<orig, portBaud, probe, restored, bret, baudCall, elmVars,
                   fnVars, connVars>>

\* one round of the loop of detect_elm327_baudrate, lines 914-918, with the
\* _test_baudrate it calls; an exception _test_baudrate does not catch ends
\* detect_elm327_baudrate
TestBaudrate ==
    /\ bpc = "loop"
    /\ \E out \in ProbeOutcomes :
         /\ probe' = out
         /\ portBaud' \in IF out.kind = "baud_unsupported"
                          THEN {portBaud, TRY_BAUDS[bi]}
                          ELSE {TRY_BAUDS[bi]}
         /\ IF out.kind = "port_error"
            THEN /\ bpc' = "done"
                 /\ bret' = [kind |-> "raised", baud |-> 0]
                 /\ UNCHANGED <<bi, found>>
            ELSE IF test_baudrate(out)
            THEN /\ found' = TRUE
                 /\ bpc' = "restore"
                 /\ UNCHANGED <<bi, bret>>
            ELSE IF bi < Len(TRY_BAUDS)
            THEN /\ bi' = bi + 1
                 /\ UNCHANGED <<bpc, found, bret>>
            ELSE /\ bpc' = "restore"
                 /\ UNCHANGED <<bi, found, bret>>
    /\ UNCHANGED <<saved, orig, portTimeout, portWriteTimeout, restored, baudCall,
                   elmVars, fnVars, connVars>>

\* how lines 933-934 end: both timeouts set, or the port raises
\* SerialException on the first or on the second assignment
RestoreOutcomes == {"ok", "timeout_raises", "write_timeout_raises"}

\* detect_elm327_baudrate lines 920-946
DetectFinish ==
    /\ bpc = "restore"
    /\ \E r \in RestoreOutcomes :
         /\ restored' = r
         /\ portTimeout' \in IF r = "timeout_raises"
                             THEN {portTimeout, saved}
                             ELSE {saved}
         /\ portWriteTimeout' \in CASE r = "timeout_raises" -> {portWriteTimeout}
                                    [] r = "write_timeout_raises" -> {portWriteTimeout, saved}
                                    [] OTHER -> {saved}
         /\ bret' = IF r = "ok" /\ found
                    THEN [kind |-> "baud", baud |-> TRY_BAUDS[bi]]
                    ELSE [kind |-> "None", baud |-> 0]
    /\ bpc' = "done"
    /\ UNCHANGED <<bi, found, saved, orig, portBaud, probe, baudCall, elmVars,
                   fnVars, connVars>>

BaudNext == SetBaudrate \/ DetectStart \/ TestBaudrate \/ DetectFinish

BaudSpec == BaudInit /\ [][BaudNext]_vars

\* the reply contains 'ELM', or contains the probe echo and ends with the prompt
ContainsElmOrEcho(bs) ==
    \/ \E i \in 1 .. Len(bs) - 2 : SubSeq(bs, i, i + 2) = <<69, 76, 77>>
    \/ /\ \E i \in 1 .. Len(bs) - 2 : SubSeq(bs, i, i + 2) = <<127, 127, 13>>
       /\ bs # <<>>
       /\ bs[Len(bs)] = 62

\* the text Python prints for the reply holds 'ELM' in either case, or the
\* reply contains the probe echo and ends with the prompt
TextHoldsElmOrEcho(bs) ==
    \/ \E i \in 1 .. Len(StrOfBytes(bs)) - 2 :
          SubSeq(StrOfBytes(bs), i, i + 2)
              \in {e \o l \o m : e \in {"E", "e"}, l \in {"L", "l"}, m \in {"M", "m"}}
    \/ /\ \E i \in 1 .. Len(bs) - 2 : SubSeq(bs, i, i + 2) = <<127, 127, 13>>
       /\ bs # <<>>
       /\ bs[Len(bs)] = 62

\* the last probe got a reply
Replied == probe.kind = "reply"

\* the candidates are probed in list order, each set on the port before its
\* probe, and none is set once a candidate was found
ProbedInOrder ==
    /\ (bpc = "loop" /\ probe' # probe) =>
          \/ portBaud' = TRY_BAUDS[bi]
          \/ probe'.kind = "baud_unsupported"
    /\ (bpc = "loop" /\ bpc' = "loop") => bi' = bi + 1
    /\ bpc = "start" => bi' = 1
    /\ bpc \in {"restore", "done"} => bi' = bi
    /\ found => portBaud' = portBaud

\* C16 as stated: the candidates are tried in list order; the first one whose
\* reply contains 'ELM', or the echo and the final prompt, ends the search and
\* is returned, no other is; nothing is set on the port after it; None is
\* returned when all candidates failed.
C16_FirstMatchingCandidate ==
    /\ [][ /\ ProbedInOrder
           /\ (bpc = "loop" /\ bpc' # "done") =>
                 (found' <=> (Replied' /\ ContainsElmOrEcho(probe'.bytes)))
         ]_vars
    /\ [](bpc = "done" /\ bret.kind # "raised" =>
            IF found
            THEN bret = [kind |-> "baud", baud |-> TRY_BAUDS[bi]] /\ portBaud = bret.baud
            ELSE bret.kind = "None" /\ bi = Len(TRY_BAUDS))

\* C16 (amended): the candidates are tried in list order; the first one whose
\* reply, in the text Python prints for it and in either case, holds 'ELM', or
\* which contains the echo and ends with the prompt, ends the search; it is
\* returned when the timeouts could be reinstated, and None is returned when
\* reinstating them raised or when all candidates failed; nothing is set on
\* the port after the candidate that ended the search.
C16_FirstAcceptedCandidate ==
    /\ [][ /\ ProbedInOrder
           /\ (bpc = "loop" /\ bpc' # "done") =>
                 (found' <=> (Replied' /\ TextHoldsElmOrEcho(probe'.bytes)))
         ]_vars
    /\ [](bpc = "done" /\ bret.kind # "raised" =>
            IF found /\ restored = "ok"
            THEN bret = [kind |-> "baud", baud |-> TRY_BAUDS[bi]] /\ portBaud = bret.baud
            ELSE /\ bret.kind = "None"
                 /\ ~found => bi = Len(TRY_BAUDS))

\* only the third candidate was answered with the echo and the prompt, and it
\* was returned
C16_Witness ==
    /\ bpc = "done"
    /\ bi = 3
    /\ probe = [kind |-> "reply", bytes |-> <<127, 127, 13, 62>>]
    /\ bret = [kind |-> "baud", baud |-> 115200]
    /\ portBaud = 115200

\* C17: once detect_elm327_baudrate has returned, with a rate or with None,
\* the read timeout and the write timeout of the port are the ones it had
\* before the call.
C17_TimeoutsRestored ==
    (bpc = "done" /\ bret.kind \in {"baud", "None"}) =>
        /\ portTimeout = orig.timeout
        /\ portWriteTimeout = orig.write_timeout

\* set_baudrate was called with no requested rate on a port named /dev/pts...
PseudoTerminalCall ==
    /\ ~baudCall.given
    /\ StartsWith(baudCall.portstr, "/dev/pts")

\* C37: set_baudrate with no requested rate on a port whose name starts with
\* /dev/pts returns in one step, with the port at 38400 and 38400 as its
\* result, without entering the detection, and no probe is ever written to
\* the port during such a call.
C37_PseudoTerminalRate ==
    /\ [][(bpc = "set" /\ PseudoTerminalCall) =>
            /\ bpc' = "returned"
            /\ portBaud' = 38400
            /\ bret' = [kind |-> "baud", baud |-> 38400]
            /\ UNCHANGED <<portTimeout, portWriteTimeout>>
         ]_vars
    /\ [](PseudoTerminalCall =>
            /\ probe = NoProbe
            /\ bi = 0
            /\ bpc \in {"set", "returned"})

\* set_baudrate(None) on /dev/pts/0 has returned 38400, and the port, which
\* was at 9600, is at 38400 and was never probed
C37_Witness ==
    /\ bpc = "returned"
    /\ baudCall = [given |-> FALSE, rate |-> 0, portstr |-> "/dev/pts/0"]
    /\ bret = [kind |-> "baud", baud |-> 38400]
    /\ portBaud = 38400
    /\ probe = NoProbe

----------------------------------------------------------------------------
(* obd_connection.py: OBDConnection *)

\* most public calls made on one OBDConnection
MaxCalls == 2
\* most frames in the messages of one response
MaxFrames == 1

\* OBDCommand objects, with the attributes OBDConnection reads: a PID listing
\* command and a command of mode 06
CmdPids == [name |-> "PIDS_A", mode |-> 1, command |-> "0100", header |-> "7E0", fast |-> TRUE]
CmdMids == [name |-> "MIDS_A", mode |-> 6, command |-> "0600", header |-> "7E0", fast |-> FALSE]

Commands == {CmdPids, CmdMids}

\* commands.base_commands(): supported before the vehicle was asked
BaseCommands == {CmdPids}

\* commands.pid_getters(): the PID listing commands
PidGetters == {CmdPids}

\* ECU_HEADERS.ENGINE, the enum member __init__ stores (it is no bytes object:
\* it equals no header of a command)
ENGINE == "ECU_HEADERS.ENGINE"

\* what the adapter answers to AT SH
RepliesATSH == { <<>>, <<"OK">>, <<"?">> }

\* what the protocol handler makes of the lines of the reply to AT SH: no
\* message, messages whose raw text is "OK", other messages
ParsedHeader == {"none", "OK", "other"}

\* what the protocol handler makes of the lines of the reply to a command: no
\* message (frames = -1), or messages with frames frames in all
ParsedReply == [frames : -1 .. MaxFrames]

\* ELM327.send_and_parse as a function of the session
send_and_parse(s, lp, pid, cmd, in1, in2) ==
    IF ~is_connected(s)
    THEN [s |-> s, lowPower |-> lp, ret |-> "None"]
    ELSE LET s1 == IF lp THEN send(s, " ", 0, in1).s ELSE s
             r == send(s1, cmd, 0, in2)
         IN  [s |-> r.s, lowPower |-> FALSE,
              ret |-> IF pid = "None" THEN "raised" ELSE "messages"]

\* what the port does during one __send of a call of the OBDConnection: the
\* first read brings the reply, times out or raises, or the write raises
ConnInputs(R) == {in \in IOInputs(R) : Len(in.reads) <= 1}

\* the port is not used
NoTraffic == [wf |-> FALSE, reads |-> <<>>]

\* the port inputs of the normal_power a send_and_parse makes
WakeInputs(lp) ==
    IF lp THEN ConnInputs(RepliesPlain) ELSE {[wf |-> FALSE, reads |-> <<>>]}

\* the command most recently written once the commands of written are:
\* the last of them, or the one before when there is none
LastOf(written, before) ==
    IF written # <<>> THEN written[Len(written)] ELSE before

\* the session with the marks of port trouble dropped
Quiet(s) == [s EXCEPT !.fault = FALSE, !.timedOut = FALSE]

\* OBDConnection.status()
conn_status == IF iface = "None" THEN NOT_CONNECTED ELSE status

\* OBDConnection.is_connected lines 250-260
conn_is_connected ==
    IF conn_status = ELM_CONNECTED THEN FALSE ELSE conn_status = CAR_CONNECTED

\* OBDConnection.supports
supports(cmd) == cmd \in supported

\* test_cmd without the test of the supported commands
test_cmd_mode_only(cmd) ==
    IF cmd.mode = 6 /\ protocol.id = "None" THEN "raised"
    ELSE IF cmd.mode = 6 /\ protocol.id \notin {"6", "7", "8", "9"} THEN "False"
    ELSE "True"

\* OBDConnection.test_cmd: "True", "False", or "raised" when protocol_id is
\* read from a session without handler
test_cmd(cmd) ==
    IF ~supports(cmd) THEN "False"
    ELSE IF cmd.mode = 6 /\ protocol.id = "None" THEN "raised"
    ELSE IF cmd.mode = 6 /\ protocol.id \notin {"6", "7", "8", "9"} THEN "False"
    ELSE "True"

\* Python: str(n) for a small n
StrOfNat(n) == SubSeq("0123456789", n + 1, n + 1)

\* __build_command_string never appending a frame count
counted_command_plain(cmd) == cmd.command

\* __build_command_string lines 332-338: the command with the frame count the
\* connection knows for it, fast mode being on
counted_command(cmd) ==
    IF cmd.fast /\ cmd.name \in DOMAIN frameCounts
    THEN cmd.command \o StrOfNat(frameCounts[cmd.name])
    ELSE cmd.command

\* OBDConnection.__build_command_string
build_command_string(cmd) ==
    IF counted_command(cmd) = lastCommand THEN "" ELSE counted_command(cmd)

\* the ELM327 variables a call of the OBDConnection leaves alone
elmRest == <<params, pc, cres, answers, r0100, ti, rcVars>>

\* a call of the OBDConnection returns res, or raises; an exception inside
\* __init__ leaves no OBDConnection
ConnReturn(res) ==
    /\ cret' = res
    /\ query' = NoQuery
    /\ cpc' = IF query.loading /\ res = "raised" THEN "dead" ELSE "ready"

\* the arguments of OBDConnection(portstr, baudrate, protocol, fast, timeout,
\* check_voltage, start_low_power) that reach the ELM327: the CAN protocol 6
\* with and without the voltage check, and protocol 3, which is no CAN
\* protocol, started from low power; fast keeps its default True
ConnParamSet ==
    {p \in ParamSet :
        /\ p.portname # ""
        /\ \/ p.protocol = "3" /\ ~p.check_voltage /\ p.start_low_power
           \/ p.protocol = "6" /\ ~p.start_low_power}

\* OBDConnection(portstr, ...) is called: __init__ lines 34-40, and __connect
\* constructs the ELM327
ConnInit ==
    /\ ElmInit
    /\ params \in ConnParamSet
    /\ NoFn
    /\ NoDetect
    /\ cpc = "connect"
    /\ iface = "None"
    /\ supported = BaseCommands
    /\ lastHeader = ENGINE
    /\ lastCommand = ""
    /\ frameCounts = <<>>
    /\ query = NoQuery
    /\ cret = "none"
    /\ calls = 0
    /\ lastWritten = ""

\* __connect keeping the interface whatever its status
ConnConstructed_KeepsStalled ==
    /\ cpc = "connect"
    /\ pc \in {"idle", "dead"}
    /\ IF pc = "dead"
       THEN /\ cpc' = "dead"
            /\ cret' = "raised"
            /\ UNCHANGED <<iface, supported, ioVars, protocol, op, ret>>
       ELSE /\ iface' = "obj"
            /\ cpc' = IF status # CAR_CONNECTED THEN "ready" ELSE "load"
            /\ cret' = "none"
            /\ SetIO(Fresh)
            /\ protocol' = [protocol EXCEPT !.lines = <<>>]
            /\ UNCHANGED <<supported, op, ret>>
    /\ answers' = <<>>
    /\ cres' = "none"
    /\ lastWritten' = LastOf(log, "")
    /\ UNCHANGED <<lowPower, params, pc, r0100, ti, rcVars, lastHeader,
                   lastCommand, frameCounts, query, calls, fnVars, baudVars>>

\* __connect lines 80-89 once the ELM327 is constructed (an exception of the
\* constructor ends __init__), with the close() it calls on a session that is
\* not CAR_CONNECTED, and the first test of __load_commands; the lines the
\* protocol handler was built from are not read again and are forgotten
ConnConstructed ==
    /\ cpc = "connect"
    /\ pc \in {"idle", "dead"}
    /\ IF pc = "dead"
       THEN /\ cpc' = "dead"
            /\ cret' = "raised"
            /\ UNCHANGED <<iface, supported, ioVars, protocol, op, ret>>
       ELSE IF status # CAR_CONNECTED
       THEN /\ supported' = {}
            /\ \E in \in CloseInputs : SetIO(Quiet(close(Fresh, in)))
            /\ protocol' = NoProtocol
            /\ op' = "close"
            /\ ret' = "None"
            /\ iface' = "None"
            /\ cpc' = "ready"
            /\ cret' = "None"
       ELSE /\ iface' = "obj"
            /\ cpc' = "load"
            /\ cret' = "none"
            /\ SetIO(Fresh)
            /\ protocol' = [protocol EXCEPT !.lines = <<>>]
            /\ UNCHANGED <<supported, op, ret>>
    /\ answers' = <<>>
    /\ cres' = "none"
    /\ lastWritten' = IF iface' = "None" THEN LastOf(log', LastOf(log, ""))
                      ELSE LastOf(log, "")
    /\ UNCHANGED <<lowPower, params, pc, r0100, ti, rcVars, lastHeader,
                   lastCommand, frameCounts, query, calls, fnVars, baudVars>>

\* __set_header recording the header after any reply that is a message
last_header_after_any_reply(res, r, header) ==
    IF res = "messages" /\ r # "none" THEN header ELSE lastHeader

\* __set_header lines 136-142: __last_header after the AT SH was sent; res is
\* what send_and_parse returned and r what its messages hold
last_header_after(res, r, header) ==
    IF res = "messages" /\ r = "OK" THEN header ELSE lastHeader

\* __set_header lines 135-142 for a header that is not the last one, on one
\* behaviour of the port and of the protocol handler, and query going on to
\* line 312
SetHeaderOn(cmd, force, loading, in1, in2, r) ==
    LET sp == send_and_parse(Fresh, lowPower, protocol.id,
                             "AT SH " \o cmd.header \o " ", in1, in2)
    IN  /\ SetIO(Quiet(sp.s))
        /\ lowPower' = sp.lowPower
        /\ op' = "send_and_parse"
        /\ ret' = sp.ret
        /\ IF sp.ret = "raised"
           THEN /\ cret' = "raised"
                /\ query' = NoQuery
                /\ cpc' = IF loading THEN "dead" ELSE "ready"
                /\ UNCHANGED lastHeader
           ELSE /\ cpc' = "q_send"
                /\ query' = [cmd |-> cmd.name, force |-> force,
                             loading |-> loading]
                /\ cret' = cret
                /\ lastHeader' = last_header_after(sp.ret, r, cmd.header)

\* query lines 302-310 with the __set_header it calls
QueryHead(cmd, force, loading) ==
    /\ IF conn_status = NOT_CONNECTED
          \/ (~force /\ test_cmd(cmd) = "False")
       THEN /\ cret' = "null"
            /\ query' = NoQuery
            /\ cpc' = "ready"
            /\ SetIO(Fresh)
            /\ UNCHANGED <<lastHeader, lowPower, op, ret>>
       ELSE IF ~force /\ test_cmd(cmd) = "raised"
       THEN /\ cret' = "raised"
            /\ query' = NoQuery
            /\ cpc' = IF loading THEN "dead" ELSE "ready"
            /\ SetIO(Fresh)
            /\ UNCHANGED <<lastHeader, lowPower, op, ret>>
       ELSE IF cmd.header = lastHeader
       THEN /\ cpc' = "q_send"
            /\ query' = [cmd |-> cmd.name, force |-> force, loading |-> loading]
            /\ SetIO(Fresh)
            /\ UNCHANGED <<cret, lastHeader, lowPower, op, ret>>
       ELSE \E in1 \in WakeInputs(lowPower), in2 \in ConnInputs(RepliesATSH),
               r \in ParsedHeader :
              SetHeaderOn(cmd, force, loading, in1, in2, r)
    /\ lastWritten' = LastOf(log', lastWritten)
    /\ UNCHANGED <<iface, lastCommand, frameCounts, protocol, elmRest,
                   fnVars, baudVars>>

\* a public call query(cmd, force), up to its __set_header
QueryCall(cmd, force) ==
    /\ cpc = "ready"
    /\ calls < MaxCalls
    /\ calls' = calls + 1
    /\ supported' = supported
    /\ QueryHead(cmd, force, FALSE)

Query == \E cmd \in Commands, force \in BOOLEAN : QueryCall(cmd, force)

\* __load_commands lines 102-111, for the one PID listing command: it is
\* queried when test_cmd lets it pass
LoadQuery ==
    /\ cpc = "load"
    /\ UNCHANGED <<calls, supported>>
    /\ \E get \in PidGetters :
         IF test_cmd(get) = "True"
         THEN QueryHead(get, FALSE, TRUE)
         ELSE /\ cpc' = "ready"
              /\ UNCHANGED <<elmVars, fnVars, baudVars, iface, lastHeader,
                             lastCommand, frameCounts, query, cret, lastWritten>>

\* query line 324 recording the count of every response
frame_counts_overwritten(cmd, frames) ==
    [n \in DOMAIN frameCounts \cup {cmd.name} |->
       IF n = cmd.name THEN (IF frames < 0 THEN 0 ELSE frames)
       ELSE frameCounts[n]]

\* query line 324: the frame counts once a response of frames frames (-1: no
\* message) came for cmd
frame_counts_after(cmd, frames) ==
    IF cmd.name \in DOMAIN frameCounts THEN frameCounts
    ELSE [n \in DOMAIN frameCounts \cup {cmd.name} |->
            IF n = cmd.name THEN (IF frames < 0 THEN 0 ELSE frames)
            ELSE frameCounts[n]]

\* query lines 312-328 on one behaviour of the port and of the protocol
\* handler; in __load_commands the commands a response lists become supported
\* (lines 113-129)
QuerySendOn(in1, in2, r) ==
    LET cmd == CHOOSE c \in Commands : c.name = query.cmd
        cmd_string == build_command_string(cmd)
        sp == send_and_parse(Cur, lowPower, protocol.id, cmd_string, in1, in2)
        known == cmd.name \in DOMAIN frameCounts
    IN  /\ SetIO(Quiet(sp.s))
        /\ lowPower' = sp.lowPower
        /\ op' = "send_and_parse"
        /\ ret' = sp.ret
        /\ IF sp.ret = "raised"
           THEN /\ ConnReturn("raised")
                /\ UNCHANGED <<lastCommand, frameCounts, supported>>
           ELSE /\ lastCommand' = IF cmd_string # "" THEN cmd_string
                                  ELSE lastCommand
                /\ IF sp.ret = "None"
                   THEN /\ ConnReturn(IF known THEN "null" ELSE "raised")
                        /\ UNCHANGED <<frameCounts, supported>>
                   ELSE /\ frameCounts' = frame_counts_after(cmd, r.frames)
                        /\ ConnReturn(IF r.frames < 0 THEN "null" ELSE "response")
                        /\ IF query.loading /\ r.frames >= 0
                           THEN supported' \in {supported \cup A : A \in SUBSET Commands}
                           ELSE supported' = supported

\* query from line 312 on; send_and_parse returns None at once on a session
\* that is not connected, so that nothing is drawn for the port or the handler
QuerySend ==
    /\ cpc = "q_send"
    /\ IF is_connected(Cur)
       THEN \E in1 \in WakeInputs(lowPower), in2 \in ConnInputs(RepliesCmd),
               r \in ParsedReply :
              QuerySendOn(in1, in2, r)
       ELSE QuerySendOn(NoTraffic, NoTraffic, [frames |-> -1])
    /\ lastWritten' = LastOf(log', lastWritten)
    /\ UNCHANGED <<iface, lastHeader, calls, protocol, elmRest, fnVars, baudVars>>

\* OBDConnection.close: its __set_header(ECU_HEADERS.ENGINE) returns at once
\* while __last_header is that member, and otherwise raises TypeError on
\* b'AT SH ' + header, the member being no bytes object
ConnClose ==
    /\ cpc = "ready"
    /\ calls < MaxCalls
    /\ calls' = calls + 1
    /\ supported' = {}
    /\ IF iface = "None"
       THEN /\ cret' = "None"
            /\ SetIO(Fresh)
            /\ UNCHANGED <<iface, protocol, op, ret>>
       ELSE IF lastHeader # ENGINE
       THEN /\ cret' = "raised"
            /\ SetIO(Fresh)
            /\ UNCHANGED <<iface, protocol, op, ret>>
       ELSE /\ \E in \in CloseInputs : SetIO(Quiet(close(Fresh, in)))
            /\ protocol' = NoProtocol
            /\ op' = "close"
            /\ ret' = "None"
            /\ iface' = "None"
            /\ cret' = "None"
    /\ lastWritten' = LastOf(log', lastWritten)
    /\ UNCHANGED <<cpc, lowPower, lastHeader, lastCommand, frameCounts, query,
                   elmRest, fnVars, baudVars>>

\* OBDConnection.low_power and normal_power on an OBDConnection without interface
ConnPowerNoInterface ==
    /\ cpc = "ready"
    /\ calls < MaxCalls
    /\ iface = "None"
    /\ calls' = calls + 1
    /\ cret' = NOT_CONNECTED
    /\ UNCHANGED <<elmVars, fnVars, baudVars, cpc, iface, supported, lastHeader,
                   lastCommand, frameCounts, query, lastWritten>>

\* OBDConnection.low_power lines 211-213 on an OBDConnection with an
\* interface: ELM327.low_power
ConnLowPower ==
    /\ cpc = "ready"
    /\ calls < MaxCalls
    /\ iface = "obj"
    /\ calls' = calls + 1
    /\ op' = "low_power"
    /\ IF ~is_connected(Cur)
       THEN /\ SetIO(Fresh)
            /\ ret' = "None"
            /\ lowPower' = lowPower
       ELSE \E in \in ConnInputs(RepliesATLP) :
              LET r == send(Fresh, "ATLP", 10, in)
              IN  /\ SetIO(Quiet(r.s))
                  /\ lowPower' = IF \E i \in 1..Len(r.lines) : r.lines[i] = "OK"
                                 THEN TRUE ELSE lowPower
                  /\ ret' = "lines"
    /\ cret' = ret'
    /\ lastWritten' = LastOf(log', lastWritten)
    /\ UNCHANGED <<cpc, iface, supported, lastHeader, lastCommand, frameCounts,
                   query, protocol, elmRest, fnVars, baudVars>>

\* OBDConnection.normal_power lines 218-220 on an OBDConnection with an
\* interface: ELM327.normal_power
ConnNormalPower ==
    /\ cpc = "ready"
    /\ calls < MaxCalls
    /\ iface = "obj"
    /\ calls' = calls + 1
    /\ op' = "normal_power"
    /\ IF ~is_connected(Cur)
       THEN /\ SetIO(Fresh)
            /\ ret' = "None"
            /\ lowPower' = lowPower
       ELSE \E in \in ConnInputs(RepliesPlain) :
              /\ SetIO(Quiet(send(Fresh, " ", 0, in).s))
              /\ lowPower' = FALSE
              /\ ret' = "lines"
    /\ cret' = ret'
    /\ lastWritten' = LastOf(log', lastWritten)
    /\ UNCHANGED <<cpc, iface, supported, lastHeader, lastCommand, frameCounts,
                   query, protocol, elmRest, fnVars, baudVars>>

ConnNext ==
    \/ (cpc = "connect" /\ Connect)
    \/ ConnConstructed
    \/ LoadQuery
    \/ Query
    \/ QuerySend
    \/ ConnClose
    \/ ConnPowerNoInterface
    \/ ConnLowPower
    \/ ConnNormalPower

ConnSpec == ConnInit /\ [][ConnNext]_vars

\* the status is NOT_CONNECTED, or force is not set and the command is not
\* supported by the vehicle or is a mode 06 command on a non-CAN protocol
MustRefuse(cmd, force) ==
    \/ (IF iface = "None" THEN NOT_CONNECTED ELSE status) = NOT_CONNECTED
    \/ /\ ~force
       /\ \/ cmd \notin supported
          \/ cmd.mode = 6 /\ protocol.id \notin {"6", "7", "8", "9"}

\* the call returned a null response, wrote nothing to the adapter and
\* changed nothing of the connection
Refused ==
    /\ cret' = "null"
    /\ cpc' = "ready"
    /\ log' = <<>>
    /\ UNCHANGED <<status, port, ser, lowPower, protocol, iface, supported,
                   lastHeader, lastCommand, frameCounts>>

\* C14: query returns a null response, without raising and without sending
\* anything to the adapter, when the status is NOT_CONNECTED or when force is
\* not set and the command is unsupported or is a mode 06 command on a
\* non-CAN protocol.
C14_QueryRefused ==
    [][\A cmd \in Commands, force \in BOOLEAN :
          (cpc = "ready" /\ MustRefuse(cmd, force) /\ QueryCall(cmd, force))
              => Refused]_vars

\* a query of the supported mode 06 command was refused on the non-CAN
\* protocol 3 (the PID listing command is supported and would have been sent)
C14_Witness ==
    /\ cpc = "ready"
    /\ calls = 1
    /\ cret = "null"
    /\ log = <<>>
    /\ status = CAR_CONNECTED
    /\ iface = "obj"
    /\ supported = {CmdPids, CmdMids}
    /\ protocol.id = "3"

\* the connection is closed: no interface, no supported command, status()
\* NOT_CONNECTED
ConnClosed ==
    /\ iface' = "None"
    /\ supported' = {}
    /\ (IF iface' = "None" THEN NOT_CONNECTED ELSE status') = NOT_CONNECTED

\* C22: after OBDConnection.close(), from any state, the interface is None,
\* the set of supported commands is empty and status() is NOT_CONNECTED;
\* every later query returns a null response without raising, and a second
\* close() does not raise.
C22_CloseFromAnyState ==
    [][/\ (cpc = "ready" /\ ConnClose) => (cret' = "None" /\ ConnClosed)
       /\ \A cmd \in Commands, force \in BOOLEAN :
             (cpc = "ready" /\ iface = "None" /\ QueryCall(cmd, force))
                 => (cret' = "null" /\ ConnClosed)]_vars

\* the AT SH command of a header
AtSh(header) == "AT SH " \o header \o " "

\* a public query(cmd, force) gets past its tests and through __set_header
QueryGoesOn(cmd, force) ==
    /\ cpc = "ready"
    /\ cpc' = "q_send"
    /\ query' = [cmd |-> cmd.name, force |-> force, loading |-> FALSE]

\* no AT SH is sent: nothing is written and the port is left alone
NoHeaderChange ==
    /\ log' = <<>>
    /\ UNCHANGED <<port, ser, status, lastHeader>>
    /\ cpc' = "q_send"

\* the AT SH of the command's header is the one command written, after the
\* byte that wakes an adapter in low power, unless the session holds no port
\* or loses it in the writing
HeaderChangeSent(cmd) ==
    \/ log' = <<AtSh(cmd.header)>>
    \/ lowPower /\ log' = <<" ", AtSh(cmd.header)>>
    \/ log' = <<>> /\ port' = "None"
    \/ lowPower /\ log' = <<" ">> /\ port' = "None"

\* C28: query sends the transmit-header change AT SH before the command
\* exactly when the header of the command differs from the last header
\* recorded; the last header recorded becomes the header of the command only
\* when the reply to that AT SH was exactly OK and is unchanged on an empty
\* reply or another reply.  (The middle disjunct on r follows from the last
\* one and spares its evaluation.)
C28_HeaderChange ==
    [][\A cmd \in Commands, force \in BOOLEAN :
          QueryGoesOn(cmd, force) =>
              /\ cmd.header = lastHeader => NoHeaderChange
              /\ cmd.header # lastHeader =>
                    /\ HeaderChangeSent(cmd)
                    /\ \A r \in ParsedHeader :
                          \/ lastHeader' = (IF r = "OK" /\ ret' = "messages"
                                            THEN cmd.header ELSE lastHeader)
                          \/ lastHeader' # last_header_after(ret', r, cmd.header)
                          \/ ~(\E in1 \in WakeInputs(lowPower),
                                  in2 \in ConnInputs(RepliesATSH) :
                                 SetHeaderOn(cmd, force, FALSE, in1, in2, r))]_vars

\* a public query sent AT SH again because the reply to the AT SH of the
\* load query had not been OK, and recorded the header on the reply OK
C28_Witness ==
    /\ cpc = "q_send"
    /\ calls = 1
    /\ query.cmd = "MIDS_A"
    /\ log = <<"AT SH 7E0 ">>
    /\ lastHeader = "7E0"
    /\ lastCommand = "0100"
    /\ status = CAR_CONNECTED

\* the command of the query in progress
QueriedCommand == CHOOSE c \in Commands : c.name = query.cmd

\* this step of query wrote the empty command string to the adapter
SentEmpty ==
    /\ cpc = "q_send"
    /\ Len(log') > Len(log)
    /\ log'[Len(log')] = ""

\* the commands the adapter received before the last one of this step, the
\* space that wakes it from low power left out
ReceivedBefore ==
    SelectSeq(<<lastWritten>> \o SubSeq(log', 1, Len(log') - 1),
              LAMBDA c : c # " ")

\* C27: whenever query sends the empty command string, the command most
\* recently written to the adapter, the AT SH of the same query counted, is the
\* command string this query would otherwise have sent: the adapter repeats
\* no AT SH and no other query in its place
C27_RepeatIsSameCommand ==
    [][SentEmpty =>
          ReceivedBefore[Len(ReceivedBefore)] = counted_command(QueriedCommand)]_vars

\* the frames in all the messages of a response
TotalFrames(r) == IF r.frames < 0 THEN 0 ELSE r.frames

\* the command of the query in progress with the frame count recorded for it
WithRecordedCount ==
    QueriedCommand.command \o StrOfNat(frameCounts[QueriedCommand.name])

\* this step of query wrote its command string to the adapter, and not only
\* the byte that wakes it from low power
ReachesAdapter ==
    /\ cpc = "q_send"
    /\ Len(log') > Len(log)
    /\ log'[Len(log')] # " "

\* a first query that reaches the adapter records the frames of its response
\* (the middle disjunct follows from the last one and spares its evaluation)
RecordedOnFirst ==
    (ReachesAdapter /\ query.cmd \notin DOMAIN frameCounts) =>
       \A r \in ParsedReply :
          \/ /\ query.cmd \in DOMAIN frameCounts'
             /\ frameCounts'[query.cmd] = TotalFrames(r)
          \/ /\ ret' = "messages"
             /\ frameCounts' # frame_counts_after(QueriedCommand, r.frames)
          \/ ~(\E in1 \in WakeInputs(lowPower), in2 \in ConnInputs(RepliesCmd) :
                 QuerySendOn(in1, in2, r))

\* no step changes a recorded frame count
NeverOverwritten ==
    \A n \in DOMAIN frameCounts :
       n \in DOMAIN frameCounts' /\ frameCounts'[n] = frameCounts[n]

\* a later query of a fast command sends the command with the recorded count,
\* or the empty string that stands for that very string
LaterAppendsCount ==
    ( /\ ReachesAdapter
      /\ query.cmd \in DOMAIN frameCounts
      /\ QueriedCommand.fast )
    => /\ log'[Len(log')] \in {WithRecordedCount, ""}
       /\ log'[Len(log')] = "" => lastCommand = WithRecordedCount
       /\ lastCommand' = WithRecordedCount

\* C29: the frame count of a command is recorded on its first query that
\* reaches the adapter and is the number of frames in all the messages of that
\* response; later queries never overwrite it; with fast mode on, every later
\* query of a fast command appends exactly this count to the command string
C29_FrameCount ==
    [][RecordedOnFirst /\ NeverOverwritten /\ LaterAppendsCount]_vars

\* a later query of the PID listing command was sent with the count of one
\* frame its first response had
C29_Witness ==
    /\ cpc = "ready"
    /\ calls >= 1
    /\ "PIDS_A" \in DOMAIN frameCounts
    /\ frameCounts["PIDS_A"] = 1
    /\ lastCommand = "01001"
    /\ lastWritten = "01001"

\* the ELM327 was constructed and stalled before CAR_CONNECTED
StalledSession ==
    /\ cpc = "connect"
    /\ pc = "idle"
    /\ status \in {ELM_CONNECTED, OBD_CONNECTED}

\* C40: once the OBDConnection is constructed, and after any of its query,
\* low_power, normal_power and close calls, status() is NOT_CONNECTED or
\* CAR_CONNECTED and is_connected() is true exactly when it is
\* CAR_CONNECTED; a session that stalled at ELM_CONNECTED or OBD_CONNECTED
\* during the construction is closed and dropped by it.
C40_ConnectionStatus ==
    /\ [](cpc \in {"load", "ready", "q_send"} =>
            /\ conn_status \in {NOT_CONNECTED, CAR_CONNECTED}
            /\ conn_is_connected <=> conn_status = CAR_CONNECTED)
    /\ [][StalledSession =>
            /\ iface' = "None"
            /\ status' = NOT_CONNECTED
            /\ port' = "None"
            /\ cpc' = "ready"
         ]_vars

\* a connection to the car has made two calls, the second a low_power that
\* put the adapter to sleep, and is still CAR_CONNECTED
C40_Witness ==
    /\ cpc = "ready"
    /\ calls = 2
    /\ iface = "obj"
    /\ op = "low_power"
    /\ lowPower
    /\ cret = "lines"
    /\ conn_status = CAR_CONNECTED
    /\ conn_is_connected

----------------------------------------------------------------------------
(* elm327.py: one call of __send *)

\* empty read results before the one that counts: more than the loop can use
EmptyReads == 0 .. 12

\* one call self.__send(cmd, delay) and what the port does during it: the
\* write raises (wf) or not, then reads that end at the marker with nothing
\* before it, then one further read
SendInputs ==
    [port : {"obj", "None"}, cmd : {"ATZ", "0100"}, delay : {0, 10},
     wf : BOOLEAN, empties : EmptyReads, last : ReadOutcomes(RepliesCmd)]

\* the session a __send is called on
SendSession(x) ==
    [status |-> ELM_CONNECTED, port |-> x.port,
     ser |-> IF x.port = "obj" THEN "open" ELSE "none",
     log |-> <<>>, fault |-> FALSE, timedOut |-> FALSE]

SendInit ==
    /\ ElmOff
    /\ NoDetect
    /\ NoConn
    /\ fn = "none"
    /\ fnIn \in SendInputs
    /\ fnOut = "none"

\* a call self.__send(cmd, delay): what was written, how many times __read
\* was called, the lines returned
SendCall ==
    /\ fn = "none"
    /\ fnIn \in SendInputs
    /\ fn' = "__send"
    /\ LET r == send(SendSession(fnIn), fnIn.cmd, fnIn.delay,
                     [wf |-> fnIn.wf,
                      reads |-> Prompts(fnIn.empties) \o <<fnIn.last>>])
       IN  fnOut' = [written |-> r.s.log, reads |-> r.reads, lines |-> r.lines]
    /\ UNCHANGED <<fnIn, elmVars, baudVars, connVars>>

SendNext == SendCall

SendSpec == SendInit /\ [][SendNext]_vars

\* the port is held when the reads begin
HeldForReads(x) == x.port = "obj" /\ ~x.wf

\* the lines read number i of the call returns
LinesOfRead(x, i) ==
    IF HeldForReads(x) /\ i = x.empties + 1 /\ x.last.kind # "fault"
    THEN x.last.lines
    ELSE <<>>

\* a __send that made at most limit reads returned the first result that was
\* not empty, or the empty result of its last read
ReturnedFirstNonEmpty(limit) ==
    /\ fnOut.reads \in 1 .. limit
    /\ fnOut.lines = LinesOfRead(fnIn, fnOut.reads)
    /\ \A i \in 1 .. (fnOut.reads - 1) : LinesOfRead(fnIn, i) = <<>>
    /\ fnOut.lines = <<>> => fnOut.reads = limit

\* the command is written once to a port that takes it and never again
WrittenOnce ==
    /\ fnOut.written \in {<<>>, <<fnIn.cmd>>}
    /\ (fnIn.port = "obj" /\ ~fnIn.wf) => fnOut.written = <<fnIn.cmd>>

\* C30, as stated: __send writes its command once; while the result is empty
\* it reads again in steps of 0.1 s only until the steps add up to 1.0 s,
\* that is at most ten times (not at all after an initial delay of 1 s), and
\* returns the first result that is not empty.
C30_RereadsUpToOneSecond ==
    fn = "__send" =>
        /\ WrittenOnce
        /\ ReturnedFirstNonEmpty(IF fnIn.delay = 10 THEN 1 ELSE 11)

\* C30, as the code has it: __send writes its command once; while the result
\* is empty it reads again while the float sum of the 0.1 s steps is below
\* 1.0, which the sum of ten steps (0.9999999999999999) still is: at most
\* eleven times (not at all after an initial delay of 1 s); it returns the
\* first result that is not empty and ends after at most twelve reads.
C30_RereadsWhileSumBelowOne ==
    fn = "__send" =>
        /\ WrittenOnce
        /\ ReturnedFirstNonEmpty(IF fnIn.delay = 10 THEN 1 ELSE 12)

\* a __send without initial delay whose twelfth read was the first to return
\* lines: the eleventh read after ten steps of 0.1 s was empty
C30_Witness ==
    /\ fn = "__send"
    /\ fnIn.delay = 0
    /\ fnIn.empties = 11
    /\ fnOut.written = <<"0100">>
    /\ fnOut.reads = 12
    /\ fnOut.lines = <<"41 0C 1A F8">>

-----------------------------------------------------------------------------
(* elm327.py: what __read makes of the bytes it received *)

\* most bytes in a received buffer
MaxBuffer == 4

\* the byte values a buffer is made of: NUL, "\n", "\r", TAB, " ", ">", "A",
\* and 0xFF, which no UTF-8 sequence holds
ReadBytes == {0, 10, 13, 9, 32, 62, 65, 255}

\* the characters str.strip() removes, among the ones below 128
Whitespace == {9, 10, 11, 12, 13, 28, 29, 30, 31, 32}

\* the buffers __read can hold when its loop ends: any bytes, the port
\* delivering them in one piece and then a prompt or nothing
RECURSIVE BuffersOfLen(_)
BuffersOfLen(n) ==
    IF n = 0 THEN {<<>>}
    ELSE {Append(b, x) : b \in BuffersOfLen(n - 1), x \in ReadBytes}

ReadBuffers == UNION {BuffersOfLen(n) : n \in 0 .. MaxBuffer}

\* re.sub(b"\x00", b"", buffer)
remove_nulls(buffer) == SelectSeq(buffer, LAMBDA x : x # 0)

\* buffer[:-1] when buffer.endswith(ELM_PROMPT)
remove_prompt(buffer) ==
    IF Len(buffer) > 0 /\ buffer[Len(buffer)] = 62
    THEN SubSeq(buffer, 1, Len(buffer) - 1)
    ELSE buffer

\* buffer.decode("utf-8", "ignore") for bytes that are ASCII or 0xFF: the
\* byte 0xFF is left out
decode_ignore(buffer) == SelectSeq(buffer, LAMBDA x : x < 128)

\* re.split("[\r\n]", string): the pieces between the line breaks, empty ones
\* included
RECURSIVE re_split(_, _)
re_split(string, piece) ==
    IF string = <<>> THEN <<piece>>
    ELSE IF Head(string) \in {10, 13}
    THEN <<piece>> \o re_split(Tail(string), <<>>)
    ELSE re_split(Tail(string), Append(piece, Head(string)))

\* str.lstrip()
RECURSIVE lstrip(_)
lstrip(str) ==
    IF str # <<>> /\ Head(str) \in Whitespace THEN lstrip(Tail(str)) ELSE str

\* str.rstrip()
RECURSIVE rstrip(_)
rstrip(str) ==
    IF str # <<>> /\ str[Len(str)] \in Whitespace
    THEN rstrip(SubSeq(str, 1, Len(str) - 1))
    ELSE str

\* str.strip()
strip(str) == rstrip(lstrip(str))

\* [s.strip() for s in pieces if bool(s)]
strip_nonempty(pieces) ==
    LET kept == SelectSeq(pieces, LAMBDA p : p # <<>>)
    IN  [i \in 1 .. Len(kept) |-> strip(kept[i])]

\* ELM327.__read lines 839-853: the lines returned for a buffer
read_lines(buffer) ==
    strip_nonempty(re_split(decode_ignore(remove_prompt(remove_nulls(buffer))), <<>>))

ReadInit ==
    /\ ElmOff
    /\ NoDetect
    /\ NoConn
    /\ fn = "none"
    /\ fnIn \in ReadBuffers
    /\ fnOut = "none"

\* a call of __read on a held port whose loop ended with the buffer fnIn
ReadCall ==
    /\ fn = "none"
    /\ fnIn \in ReadBuffers
    /\ fn' = "__read"
    /\ fnOut' = read_lines(fnIn)
    /\ UNCHANGED <<fnIn, elmVars, baudVars, connVars>>

ReadNext == ReadCall

ReadSpec == ReadInit /\ [][ReadNext]_vars

\* the text of the received bytes: what is left without the null characters,
\* without one prompt at the very end and without bytes that are no text
ReceivedText(buffer) ==
    LET b == SelectSeq(buffer, LAMBDA x : x # 0)
        t == IF b # <<>> /\ b[Len(b)] = 62 THEN SubSeq(b, 1, Len(b) - 1) ELSE b
    IN  SelectSeq(t, LAMBDA x : x # 255)

\* the received lines trimmed, in the order received, the ones that are then
\* empty dropped
TrimmedLines(buffer) ==
    LET pieces == re_split(ReceivedText(buffer), <<>>)
        trimmed == [i \in 1 .. Len(pieces) |-> strip(pieces[i])]
    IN  SelectSeq(trimmed, LAMBDA p : p # <<>>)

\* C31: the lines __read returns hold no empty string, no string with leading
\* or trailing whitespace and no null character, and are the lines of the
\* received text (the prompt that ended the data taken off) that remain, in
\* the order received; for every received byte sequence, lines made only of
\* spaces included.
C31_ReadLinesClean ==
    fn = "__read" =>
        /\ \A i \in 1 .. Len(fnOut) :
              /\ fnOut[i] # <<>>
              /\ Head(fnOut[i]) \notin Whitespace
              /\ fnOut[i][Len(fnOut[i])] \notin Whitespace
              /\ \A j \in 1 .. Len(fnOut[i]) : fnOut[i][j] # 0
        /\ fnOut = TrimmedLines(fnIn)

====
